---- MODULE Spec2Model ----
(***************************************************************************)
(* A model of the concurrency core of golib:                               *)
(*   - SelfAdaptiveRingBuffer (chanx ring buffer),                         *)
(*   - ChannX (self adaptive channel: in -> ring buffer -> out, driven by  *)
(*     one dispatcher goroutine, ChannX.process),                          *)
(*   - the max-in-flight token buckets (atomic, channel, mutex).           *)
(* Go channels are modelled with their buffer, their parked receiver or    *)
(* sender and their closed flag.  Go slices are 0-based, TLA+ sequences    *)
(* are 1-based: buf[i] of the code is buf[i + 1] here.                     *)
(***************************************************************************)
EXTENDS Integers, Sequences, FiniteSets, TLC

\* ------------------------------------------------------------------ bounds
\* largest inChanSize / outChanSize explored
MaxChanSize == 1
\* largest InitBufferSize / MaxBufferSize explored (MaxBufferSize 0 = unbounded)
MaxBufSize == 2
\* number of sends the producer attempts
MaxSend == 4
\* number of Close() calls made by the closers when Close() calls race
MaxCloseCalls == 3
\* at most this many of the values sent are nil
MaxNil == 1
\* number of sends the producer attempts while Close() calls race
RaceSend == 2
\* number of sends the producer attempts in the fair runs of a pipeline without capacity
FairSend == 3
\* the width of Go's int in the model (the code runs with 64 bits)
IntBits == 16
\* largest capacity of a token bucket explored
MaxTokens == 2
\* number of TryAcquire calls the clients of a token bucket make
MaxCalls == 4
\* number of Release calls the clients of a token bucket make
MaxRelease == 3
\* number of Resize calls, and of the TryAcquire and Release calls racing with them
MaxResize == 1
ResizeCalls == 2
ResizeRelease == 2
\* the width of uint32 (f.max) in the model; int64 (f.count) has twice that width
UintBits == 3
\* in the runs that start close to the largest max, count starts at most this far below max
MaxBelow == 2
\* ring buffer used on its own: sizes given to the constructor, Put calls
MaxRingSize == 3
MaxPut == 5
\* calls in a sequential history on the three buckets
MaxSeq == 8

\* the nil interface value; the data values are 1..MaxSend
Nil == 0
Closers == {"k1", "k2"}
\* the goroutines that use a token bucket
Threads == {"t1", "t2", "t3"}
NoOne == "none"

\* ------------------------------------------------------- SelfAdaptiveRingBuffer
growThreshold == 1024
MaxInt == 2 ^ (IntBits - 1) - 1

\* two's complement wrap-around of Go's int arithmetic
WrapInt(x) == ((x + 2 ^ (IntBits - 1)) % (2 ^ IntBits)) - 2 ^ (IntBits - 1)

Nils(n) == [k \in 1..n |-> Nil]

NewSelfAdptiveRingBuffer(initSize, maxSize) ==
    LET i == IF initSize < 0 THEN 1 ELSE initSize
        m == IF maxSize < 0 THEN 0 ELSE maxSize
    IN  [buf |-> Nils(i), initSize |-> i, maxSize |-> m, size |-> i,
         r |-> 0, w |-> 0, full |-> FALSE]

IsEmpty(rb) == ~rb.full /\ rb.r = rb.w

IsFull(rb) == rb.full

\* (mutant) a drained buffer is never reset
NeedReset_Never(rb) == FALSE

NeedReset(rb) == IsEmpty(rb) /\ rb.size > rb.initSize

Cap(rb) == rb.size

BufLen(rb) ==
    IF IsEmpty(rb) THEN 0
    ELSE IF rb.w > rb.r THEN rb.w - rb.r
    ELSE rb.size - rb.r + rb.w

\* (mutant) the new capacity is not clamped to maxSize
growCap_Unclamped(rb) == rb.size + rb.size

growCap(rb) ==
    IF rb.maxSize > 0 /\ rb.size >= rb.maxSize THEN rb.size
    ELSE LET doubleCap0 == WrapInt(rb.size + rb.size)
             doubleCap == IF doubleCap0 <= 0 THEN MaxInt ELSE doubleCap0
             add == WrapInt(rb.size + 3 * growThreshold)
             grown0 == IF add <= 0 THEN MaxInt ELSE WrapInt(rb.size + add \div 4)
             grown == IF grown0 <= 0 THEN MaxInt ELSE grown0
             newcap == IF rb.size < growThreshold THEN doubleCap ELSE grown
         IN  IF rb.maxSize > 0 /\ newcap > rb.maxSize THEN rb.maxSize ELSE newcap

\* (mutant) the buffer never grows
grow_Never(rb) == [ok |-> FALSE, rb |-> rb]

\* (mutant) grow copies the old buf from index 0, not from r
grow_Wrapped(rb) ==
    LET newcap == growCap(rb) IN
    IF newcap <= rb.size THEN [ok |-> FALSE, rb |-> rb]
    ELSE [ok |-> TRUE,
          rb |-> [rb EXCEPT
                    !.buf = [k \in 1..newcap |-> IF k <= rb.size THEN rb.buf[k] ELSE Nil],
                    !.r = 0, !.w = rb.size, !.size = newcap]]

\* grow is called with w = r (the buffer is full); the result is linear
grow(rb) ==
    LET newcap == growCap(rb) IN
    IF newcap <= rb.size THEN [ok |-> FALSE, rb |-> rb]
    ELSE [ok |-> TRUE,
          rb |-> [rb EXCEPT
                    !.buf = [k \in 1..newcap |->
                               IF k <= rb.size - rb.r THEN rb.buf[rb.r + k]
                               ELSE IF k <= rb.size THEN rb.buf[k - (rb.size - rb.r)]
                               ELSE Nil],
                    !.r = 0, !.w = rb.size, !.size = newcap]]

\* (mutant) a Put on a full buffer overwrites the slot at the write cursor
Put_Overwrites(rb, v) ==
    IF IsFull(rb) THEN [ok |-> FALSE, rb |-> [rb EXCEPT !.buf[rb.w + 1] = v]]
    ELSE LET w1 == IF rb.w + 1 = rb.size THEN 0 ELSE rb.w + 1
             b1 == [rb EXCEPT !.buf[rb.w + 1] = v, !.w = w1]
         IN  IF b1.w = b1.r
             THEN LET g == grow(b1) IN
                  [ok |-> TRUE, rb |-> IF g.ok THEN g.rb ELSE [b1 EXCEPT !.full = TRUE]]
             ELSE [ok |-> TRUE, rb |-> b1]

Put(rb, v) ==
    IF IsFull(rb) THEN [ok |-> FALSE, rb |-> rb]
    ELSE LET w1 == IF rb.w + 1 = rb.size THEN 0 ELSE rb.w + 1
             b1 == [rb EXCEPT !.buf[rb.w + 1] = v, !.w = w1]
         IN  IF b1.w = b1.r
             THEN LET g == grow(b1) IN
                  [ok |-> TRUE, rb |-> IF g.ok THEN g.rb ELSE [b1 EXCEPT !.full = TRUE]]
             ELSE [ok |-> TRUE, rb |-> b1]

Peek(rb) ==
    IF IsEmpty(rb) THEN [v |-> Nil, ok |-> FALSE]
    ELSE [v |-> rb.buf[rb.r + 1], ok |-> TRUE]

\* (mutant) Pop leaves the full flag set
Pop_KeepsFull(rb) ==
    IF ~Peek(rb).ok THEN [v |-> Nil, ok |-> FALSE, rb |-> rb]
    ELSE [v |-> Peek(rb).v, ok |-> TRUE,
          rb |-> [rb EXCEPT !.buf[rb.r + 1] = Nil,
                            !.r = IF rb.r + 1 = rb.size THEN 0 ELSE rb.r + 1]]

Pop(rb) ==
    IF ~Peek(rb).ok THEN [v |-> Nil, ok |-> FALSE, rb |-> rb]
    ELSE [v |-> Peek(rb).v, ok |-> TRUE,
          rb |-> [rb EXCEPT !.buf[rb.r + 1] = Nil,
                            !.r = IF rb.r + 1 = rb.size THEN 0 ELSE rb.r + 1,
                            !.full = FALSE]]

\* Reset leaves the full flag as it is
Reset(rb) == [rb EXCEPT !.r = 0, !.w = 0, !.size = rb.initSize, !.buf = Nils(rb.initSize)]

\* the queued values, oldest first
Contents(rb) ==
    [k \in 1..BufLen(rb) |-> rb.buf[((rb.r + k - 1) % rb.size) + 1]]

\* ------------------------------------------------------------------ state
VARIABLES
    env,          \* the clients: [nsend, ncalls, nnil], how many sends, Close() calls, nil values
    cfg,          \* config of the ChannX (fixed by New)
    inq,          \* values buffered in ch.in
    inClosed,     \* ch.in is closed
    outq,         \* values buffered in ch.out
    outClosed,    \* ch.out is closed
    closed,       \* ch.close is closed (the close signal)
    rb,           \* ch.buffer
    pc,           \* position of the dispatcher goroutine (ChannX.process)
    dv,           \* the dispatcher's v / poped
    tv,           \* processTermination's v: the value popped from the ring buffer or received
                  \* from ch.in and not yet sent on out, as a sequence of at most one value
    pstate,       \* producer: idle | sending | panicked
    pval,         \* the value the producer is sending
    nBegun,       \* sends begun by the producer
    nNil,         \* nil values sent so far
    cstate,       \* consumer: idle | waiting (parked in <-Out()) | closed (saw ok = false)
    kpc,          \* closers: idle | slow (in Once.Do, before the lock) | locked |
                  \* ran (f has returned, done not yet stored) | stored (before Unlock)
    onceDone,     \* clsoeOnce.done
    onceM,        \* holder of clsoeOnce.m
    nCloseCalls,  \* Close() calls begun
    sent,         \* history: values whose send on In() completed, in order
    received,     \* history: values received from Out(), in order
    closeCalledAt,\* history: Len(sent) when Close() was first called, -1 before
    hist,         \* history: counters of close(ch.close), close(ch.in), close(ch.out), ...
    \* --- token bucket
    lcfg,         \* kind: atomic | channel | mutex; max: the capacity; balanced: the clients
                  \* call Release only for a token they hold
    count,        \* f.count (atomic, mutex), len(l.ch) (channel)
    mu,           \* holder of mutexTokenBucket.m
    tpc,          \* per goroutine: its position in TryAcquire or Release, idle between calls
    lc,           \* per goroutine: the local variable count of atomicTokenBucket.TryAcquire
    held,         \* per goroutine: tokens acquired and not yet released
    stale,        \* per goroutine: the values of f.count overwritten since its last
                  \* synchronising operation, which an unsynchronised read may still return
    res,          \* history, per goroutine: result of its last TryAcquire: none | true | false
    sawFull,      \* history, per goroutine: max tokens were outstanding at some instant of
                  \* its last TryAcquire call
    nCalls,       \* history: TryAcquire calls begun
    nTrue,        \* history: TryAcquire calls that returned true
    nFalse,       \* history: TryAcquire calls that returned false
    nRel,         \* history: Release calls begun
    lenv,         \* the clients of the bucket: their budget of calls, the package used
    lm,           \* per goroutine: the local variable max of TryAcquire, the argument n of Resize
    staleMax,     \* per goroutine: the values of f.max overwritten since its last
                  \* synchronising operation
    rz,           \* history of Resize: calls begun, calls in progress, the argument of the
                  \* last call that returned, the largest max configured so far
    fresh,        \* history, per goroutine: its last TryAcquire began after a Resize had
                  \* returned, and no Resize began since
    phase,        \* the clients' scenario: free, or fill | drain | refill with barriers
    trio,         \* an atomic, a channel and a mutex bucket of the same capacity given the
                  \* same calls one after the other: their counts and their last results
    \* --- ring buffer used on its own
    ring,         \* the SelfAdaptiveRingBuffer
    rh            \* history: the values queued, the calls made and the last result

chanVars == <<env, cfg, inq, inClosed, outq, outClosed, closed, rb, pc, dv, tv, pstate, pval,
              nBegun, nNil, cstate, kpc, onceDone, onceM, nCloseCalls, sent, received,
              closeCalledAt, hist>>

opsVars == <<lenv, rz, phase, trio>>

limVars == <<lcfg, count, mu, tpc, lc, held, stale, res, sawFull, nCalls, nTrue, nFalse, nRel,
             opsVars, lm, staleMax, fresh>>

ringVars == <<ring, rh>>

vars == <<chanVars, limVars, ringVars>>

\* ------------------------------------------------------------------ ChannX
\* New(InChanSize(i), OutChanSzie(o), InitBufferSize(b), MaxBufferSize(m) [, DropClosedBufferData()])
Configs ==
    [inChanSize : 0..MaxChanSize, outChanSize : 0..MaxChanSize,
     initBufferSize : 1..MaxBufSize, maxBufferSize : 0..MaxBufSize,
     dropClosedBufferData : BOOLEAN]

\* closeSignal, closeIn, closeOut: how often close(ch.close), close(ch.in), close(ch.out) ran;
\* termination: how often processTermination ran; closePanic: close of a closed ch.close;
\* afterClose: sends on out after the close signal was observed;
\* pending: ring buffer, held value and input buffer when the close signal was observed;
\* closeRet: a Close() call has returned; snap: with DropClosedBufferData, the values in
\* the ring buffer and in the input channel buffer when the first Close() call returned;
\* grown: the ring buffer has been larger than InitBufferSize
Hist0 == [closeSignal |-> 0, closeIn |-> 0, closeOut |-> 0, termination |-> 0,
          closePanic |-> FALSE, afterClose |-> 0, pending |-> <<>>,
          closeRet |-> FALSE, snap |-> {}, grown |-> FALSE]

New(c) ==
    /\ cfg = c
    /\ inq = <<>> /\ inClosed = FALSE
    /\ outq = <<>> /\ outClosed = FALSE
    /\ closed = FALSE
    /\ rb = NewSelfAdptiveRingBuffer(c.initBufferSize, c.maxBufferSize)
    /\ pc = "wait" /\ dv = Nil /\ tv = <<>>
    /\ onceDone = FALSE /\ onceM = NoOne

\* a ChannX with one of the configurations cfgs and its clients with the budget e
InitChannX(cfgs, e) ==
    /\ \E c \in cfgs : New(c)
    /\ env = e
    /\ pstate = "idle" /\ pval = Nil /\ nBegun = 0 /\ nNil = 0
    /\ cstate = "idle"
    /\ kpc = [k \in Closers |-> "idle"] /\ nCloseCalls = 0
    /\ sent = <<>> /\ received = <<>> /\ closeCalledAt = -1
    /\ hist = Hist0

\* newAtomic(n), newChannel(n), newMutex(n), and their clients
newBucket(t, size, balanced) ==
    /\ lcfg = [kind |-> t, max |-> size, balanced |-> balanced]
    /\ count = 0 /\ mu = NoOne
    /\ tpc = [t1 \in Threads |-> "idle"]
    /\ lc = [t1 \in Threads |-> 0]
    /\ held = [t1 \in Threads |-> 0]
    /\ stale = [t1 \in Threads |-> {}]
    /\ res = [t1 \in Threads |-> "none"]
    /\ sawFull = [t1 \in Threads |-> FALSE]
    /\ nCalls = 0 /\ nTrue = 0 /\ nFalse = 0 /\ nRel = 0
    /\ lm = [t1 \in Threads |-> 0]
    /\ staleMax = [t1 \in Threads |-> {}]
    /\ fresh = [t1 \in Threads |-> FALSE]
    /\ rz = [calls |-> 0, busy |-> 0, overlap |-> FALSE, valid |-> FALSE, n |-> size,
             top |-> size]

\* newBucket(Atomic, n), newBucket(Channel, n), newBucket(Mutex, n)
NewTrio(n) ==
    [max |-> n, atomic |-> 0, channel |-> 0, mutex |-> 0, n |-> 0, last |-> "new",
     res |-> [atomic |-> TRUE, channel |-> TRUE, mutex |-> TRUE]]

\* the goroutines using the bucket: they make at most ncalls TryAcquire, nrel Release and
\* nresize Resize calls on a bucket of package pkg (tokenbucket: part_016, lock:
\* lock/maxinflight), in scenario scen: free, or fill (phased)
Clients(ncalls, nrel, nresize, pkg, scen) ==
    /\ lenv = [ncalls |-> ncalls, nrel |-> nrel, nresize |-> nresize, pkg |-> pkg]
    /\ trio = NewTrio(0)
    /\ phase = [name |-> scen, k |-> 0, true0 |-> 0, calls0 |-> 0]

\* q: the values accepted and not yet returned, oldest first; nput, npop: successful Puts
\* and Pops; popped: the values returned by successful Pops; last, ok, v: the last call
\* and what it returned; panic: a call indexed outside buf; reset: Reset was called;
\* grewWrapped: a Put grew the buffer while r > 0
RingHist0 == [q |-> <<>>, nput |-> 0, npop |-> 0, popped |-> <<>>, last |-> "new",
              ok |-> TRUE, v |-> Nil, panic |-> FALSE, reset |-> FALSE, grewWrapped |-> FALSE]

\* NewSelfAdptiveRingBuffer(initSize, maxSize) used on its own
NewRing(initSize, maxSize) ==
    /\ ring = NewSelfAdptiveRingBuffer(initSize, maxSize)
    /\ rh = RingHist0

NoBucket == newBucket("atomic", 0, TRUE) /\ Clients(0, 0, 0, "tokenbucket", "free")

NoRing == NewRing(1, 0)

InitWith(cfgs, e) == InitChannX(cfgs, e) /\ NoBucket /\ NoRing

Init == InitWith(Configs, [nsend |-> MaxSend, ncalls |-> 1, nnil |-> MaxNil])

\* --- the Go channels ch.in and ch.out
\* a receive from ch.in can proceed: a buffered value, or a sender parked on it
InReady == inq # <<>> \/ (pstate = "sending" /\ ~inClosed)

\* the dispatcher receives v from ch.in
RecvIn ==
    IF inq # <<>>
    THEN /\ dv' = Head(inq) /\ inq' = Tail(inq)
         /\ UNCHANGED <<pstate, sent>>
    ELSE /\ dv' = pval /\ pstate' = "idle" /\ sent' = Append(sent, pval)
         /\ UNCHANGED inq

\* a send on ch.out can proceed: a receiver parked on it, or room in its buffer
OutReady == cstate = "waiting" \/ Len(outq) < cfg.outChanSize

\* the dispatcher sends v on ch.out
SendOut(v) ==
    IF cstate = "waiting"
    THEN /\ received' = Append(received, v) /\ cstate' = "idle" /\ UNCHANGED outq
    ELSE /\ outq' = Append(outq, v) /\ UNCHANGED <<received, cstate>>

\* --- producer: ch.In() <- v
ProducerBegin ==
    /\ pstate = "idle" /\ nBegun < env.nsend
    /\ \E v \in {nBegun + 1} \cup (IF nNil < env.nnil THEN {Nil} ELSE {}) :
          /\ pval' = v
          /\ nNil' = IF v = Nil THEN nNil + 1 ELSE nNil
    /\ pstate' = "sending" /\ nBegun' = nBegun + 1
    /\ UNCHANGED <<limVars, ringVars, tv, env, cfg, inq, inClosed, outq, outClosed, closed, rb, pc, dv, cstate, kpc,
                   onceDone, onceM, nCloseCalls, sent, received, closeCalledAt, hist>>

ProducerComplete ==
    /\ pstate = "sending" /\ ~inClosed /\ Len(inq) < cfg.inChanSize
    /\ inq' = Append(inq, pval) /\ sent' = Append(sent, pval) /\ pstate' = "idle"
    /\ UNCHANGED <<limVars, ringVars, tv, env, cfg, inClosed, outq, outClosed, closed, rb, pc, dv, pval, nBegun, nNil,
                   cstate, kpc, onceDone, onceM, nCloseCalls, received, closeCalledAt, hist>>

\* send on closed channel
ProducerPanic ==
    /\ pstate = "sending" /\ inClosed
    /\ pstate' = "panicked"
    /\ UNCHANGED <<limVars, ringVars, tv, env, cfg, inq, inClosed, outq, outClosed, closed, rb, pc, dv, pval, nBegun,
                   nNil, cstate, kpc, onceDone, onceM, nCloseCalls, sent, received,
                   closeCalledAt, hist>>

\* --- consumer: v, ok := <-ch.Out()
ConsumerRecv ==
    /\ cstate = "idle" /\ outq # <<>>
    /\ received' = Append(received, Head(outq)) /\ outq' = Tail(outq)
    /\ UNCHANGED <<limVars, ringVars, tv, env, cfg, inq, inClosed, outClosed, closed, rb, pc, dv, pstate, pval, nBegun,
                   nNil, cstate, kpc, onceDone, onceM, nCloseCalls, sent, closeCalledAt, hist>>

ConsumerPark ==
    /\ cstate = "idle" /\ outq = <<>> /\ ~outClosed
    /\ cstate' = "waiting"
    /\ UNCHANGED <<limVars, ringVars, tv, env, cfg, inq, inClosed, outq, outClosed, closed, rb, pc, dv, pstate, pval,
                   nBegun, nNil, kpc, onceDone, onceM, nCloseCalls, sent, received,
                   closeCalledAt, hist>>

ConsumerSeeClosed ==
    /\ cstate \in {"idle", "waiting"} /\ outq = <<>> /\ outClosed
    /\ cstate' = "closed"
    /\ UNCHANGED <<limVars, ringVars, tv, env, cfg, inq, inClosed, outq, outClosed, closed, rb, pc, dv, pstate, pval,
                   nBegun, nNil, kpc, onceDone, onceM, nCloseCalls, sent, received,
                   closeCalledAt, hist>>

Range(q) == {q[k] : k \in 1..Len(q)}

\* --- Close(): ch.clsoeOnce.Do(func() { close(ch.close) })
\* a Close() call returns: under the drop policy the first return records what the ring
\* buffer and ch.in hold
Returned(h) ==
    [h EXCEPT !.closeRet = TRUE,
              !.snap = IF h.closeRet \/ ~cfg.dropClosedBufferData THEN @
                       ELSE (Range(Contents(rb)) \cup Range(inq)) \ {Nil}]

\* the goroutines that call Close(): one when a single call is made
Callers == IF env.ncalls > 1 THEN Closers ELSE {"k1"}

\* sync.Once.Do, fast path: done is read without the lock; Close() returns if it is set
CloseCall(k) ==
    /\ k \in Callers
    /\ kpc[k] = "idle" /\ nCloseCalls < env.ncalls
    /\ nCloseCalls' = nCloseCalls + 1
    /\ closeCalledAt' = IF closeCalledAt = -1 THEN Len(sent) ELSE closeCalledAt
    /\ kpc' = [kpc EXCEPT ![k] = IF onceDone THEN "idle" ELSE "slow"]
    /\ hist' = IF onceDone THEN Returned(hist) ELSE hist
    /\ UNCHANGED <<limVars, ringVars, tv, env, cfg, inq, inClosed, outq, outClosed, closed, rb, pc, dv, pstate, pval,
                   nBegun, nNil, cstate, onceDone, onceM, sent, received>>

\* sync.Once.doSlow: o.m.Lock()
CloseLock(k) ==
    /\ kpc[k] = "slow" /\ onceM = NoOne
    /\ onceM' = k /\ kpc' = [kpc EXCEPT ![k] = "locked"]
    /\ UNCHANGED <<limVars, ringVars, tv, env, cfg, inq, inClosed, outq, outClosed, closed, rb, pc, dv, pstate, pval,
                   nBegun, nNil, cstate, onceDone, nCloseCalls, sent, received,
                   closeCalledAt, hist>>

\* (mutant) Close() closes ch.close without the Once
OnceRuns_Always == TRUE

\* the function handed to Once.Do runs only while done is unset
OnceRuns == ~onceDone

\* (mutant) Close() also closes ch.in
CloseDo_ClosesIn(k) ==
    /\ kpc[k] = "locked"
    /\ closed' = (closed \/ OnceRuns)
    /\ inClosed' = TRUE
    /\ kpc' = [kpc EXCEPT ![k] = IF OnceRuns THEN "ran" ELSE "stored"]
    /\ hist' = [hist EXCEPT
                  !.closeSignal = IF OnceRuns THEN @ + 1 ELSE @,
                  !.closeIn = IF inClosed THEN @ ELSE @ + 1,
                  !.closePanic = @ \/ (OnceRuns /\ closed)]
    /\ UNCHANGED <<limVars, ringVars, tv, env, cfg, inq, outq, outClosed, rb, pc, dv, pstate, pval, nBegun,
                   nNil, cstate, onceDone, onceM, nCloseCalls, sent, received, closeCalledAt>>

\* sync.Once.doSlow under the lock: if done == 0 { defer done.Store(1); f() }, with
\* f = close(ch.close)
CloseDo(k) ==
    /\ kpc[k] = "locked"
    /\ closed' = (closed \/ OnceRuns)
    /\ kpc' = [kpc EXCEPT ![k] = IF OnceRuns THEN "ran" ELSE "stored"]
    /\ hist' = [hist EXCEPT
                  !.closeSignal = IF OnceRuns THEN @ + 1 ELSE @,
                  !.closePanic = @ \/ (OnceRuns /\ closed)]
    /\ UNCHANGED <<limVars, ringVars, tv, env, cfg, inq, inClosed, outq, outClosed, rb, pc, dv, pstate, pval, nBegun,
                   nNil, cstate, onceDone, onceM, nCloseCalls, sent, received, closeCalledAt>>

\* sync.Once.doSlow: the deferred done.Store(1), after f has returned
CloseStore(k) ==
    /\ kpc[k] = "ran"
    /\ onceDone' = TRUE
    /\ kpc' = [kpc EXCEPT ![k] = "stored"]
    /\ UNCHANGED <<limVars, ringVars, tv, env, cfg, inq, inClosed, outq, outClosed, closed, rb, pc, dv, pstate, pval,
                   nBegun, nNil, cstate, onceM, nCloseCalls, sent, received, closeCalledAt,
                   hist>>

\* sync.Once.doSlow: the deferred o.m.Unlock(); Do and Close() return
CloseReturn(k) ==
    /\ kpc[k] = "stored"
    /\ onceM' = NoOne /\ kpc' = [kpc EXCEPT ![k] = "idle"]
    /\ hist' = Returned(hist)
    /\ UNCHANGED <<limVars, ringVars, tv, env, cfg, inq, inClosed, outq, outClosed, closed, rb, pc, dv, pstate, pval,
                   nBegun, nNil, cstate, onceDone, nCloseCalls, sent, received,
                   closeCalledAt>>

\* --- the dispatcher goroutine: ChannX.process
clientVars == <<limVars, ringVars, env, cfg, pval, nBegun, nNil, kpc, onceDone, onceM, nCloseCalls, closeCalledAt>>

\* where process continues after v was processed: the draining loop runs while the
\* buffer is not empty, else the outer select
Loop(b) == IF IsEmpty(b) THEN "wait" ELSE "drain"

RanTermination(h, pend) ==
    [h EXCEPT !.termination = @ + 1, !.pending = pend]

SentOut(h) == IF h.termination > 0 THEN [h EXCEPT !.afterClose = @ + 1] ELSE h

Grew(h, b) == IF Cap(b) > b.initSize THEN [h EXCEPT !.grown = TRUE] ELSE h

\* outer select, case v, ok = <-ch.in
WaitRecv ==
    /\ pc = "wait" /\ InReady
    /\ RecvIn /\ pc' = "admit"
    /\ UNCHANGED <<clientVars, tv, inClosed, outq, outClosed, closed, rb, cstate, received, hist>>

\* outer select, case <-ch.close: processTermination(nil)
WaitClose ==
    /\ pc = "wait" /\ closed
    /\ pc' = "term" /\ dv' = Nil
    /\ hist' = RanTermination(hist, Contents(rb) \o inq)
    /\ UNCHANGED <<clientVars, tv, inq, inClosed, outq, outClosed, closed, rb, pstate, cstate,
                   sent, received>>

\* (mutant) the direct send is tried whatever the buffer holds
AdmitDirect_Always ==
    /\ pc = "admit" /\ OutReady
    /\ SendOut(dv) /\ pc' = Loop(rb)
    /\ hist' = SentOut(hist)
    /\ UNCHANGED <<clientVars, tv, inq, inClosed, outClosed, closed, rb, dv, pstate, sent>>

\* processObjectFromInput: the buffer is empty and the non-blocking send on out succeeds
AdmitDirect ==
    /\ pc = "admit" /\ IsEmpty(rb) /\ OutReady
    /\ SendOut(dv) /\ pc' = Loop(rb)
    /\ hist' = SentOut(hist)
    /\ UNCHANGED <<clientVars, tv, inq, inClosed, outClosed, closed, rb, dv, pstate, sent>>

\* processObjectFromInput: mustPutToBuffer(v), its Put or the wait for out when Put fails
AdmitBuffer ==
    /\ pc = "admit" /\ ~(IsEmpty(rb) /\ OutReady)
    /\ LET p == Put(rb, dv) IN
          IF p.ok THEN rb' = p.rb /\ pc' = Loop(p.rb)
          ELSE rb' = rb /\ pc' = "force"
    /\ hist' = Grew(hist, rb')
    /\ UNCHANGED <<clientVars, tv, inq, inClosed, outq, outClosed, closed, dv, pstate, cstate,
                   sent, received>>

\* mustPutToBuffer, case ch.out <- peek: Pop, Put(v)
ForceSend ==
    /\ pc = "force" /\ OutReady
    /\ SendOut(Peek(rb).v)
    /\ rb' = Put(Pop(rb).rb, dv).rb
    /\ pc' = Loop(rb')
    /\ hist' = Grew(SentOut(hist), rb')
    /\ UNCHANGED <<clientVars, tv, inq, inClosed, outClosed, closed, dv, pstate, sent>>

\* mustPutToBuffer, case <-ch.close: return false, processTermination(v)
ForceClose ==
    /\ pc = "force" /\ closed
    /\ pc' = "term"
    /\ hist' = RanTermination(hist, Contents(rb) \o <<dv>> \o inq)
    /\ UNCHANGED <<clientVars, tv, inq, inClosed, outq, outClosed, closed, rb, dv, pstate,
                   cstate, sent, received>>

\* draining select, case v, ok = <-ch.in
DrainRecv ==
    /\ pc = "drain" /\ InReady
    /\ RecvIn /\ pc' = "admit"
    /\ UNCHANGED <<clientVars, tv, inClosed, outq, outClosed, closed, rb, cstate, received, hist>>

\* draining select, case ch.out <- peek: Pop, Reset if NeedReset
DrainSend ==
    /\ pc = "drain" /\ OutReady
    /\ SendOut(Peek(rb).v)
    /\ LET b == Pop(rb).rb IN rb' = IF NeedReset(b) THEN Reset(b) ELSE b
    /\ pc' = Loop(rb')
    /\ hist' = SentOut(hist)
    /\ UNCHANGED <<clientVars, tv, inq, inClosed, outClosed, closed, dv, pstate, sent>>

\* draining select, case <-ch.close: processTermination(nil)
DrainClose ==
    /\ pc = "drain" /\ closed
    /\ pc' = "term" /\ dv' = Nil
    /\ hist' = RanTermination(hist, Contents(rb) \o inq)
    /\ UNCHANGED <<clientVars, tv, inq, inClosed, outq, outClosed, closed, rb, pstate, cstate,
                   sent, received>>

\* (mutant) termination ignores dropClosedBufferData and flushes
TermCloseIn_Flush ==
    /\ pc = "term" /\ ~inClosed
    /\ inClosed' = TRUE
    /\ hist' = [hist EXCEPT !.closeIn = @ + 1]
    /\ pc' = "term_buf"
    /\ UNCHANGED <<clientVars, tv, inq, outq, outClosed, closed, rb, dv, pstate, cstate, sent,
                   received>>

\* processTermination: close(ch.in)
TermCloseIn ==
    /\ pc = "term" /\ ~inClosed
    /\ inClosed' = TRUE
    /\ hist' = [hist EXCEPT !.closeIn = @ + 1]
    /\ pc' = IF cfg.dropClosedBufferData THEN "term_drop" ELSE "term_buf"
    /\ UNCHANGED <<clientVars, tv, inq, outq, outClosed, closed, rb, dv, pstate, cstate, sent,
                   received>>

\* processTermination with dropClosedBufferData: Reset, return, the deferred close(ch.out)
TermDrop ==
    /\ pc = "term_drop"
    /\ rb' = Reset(rb)
    /\ outClosed' = TRUE
    /\ hist' = [hist EXCEPT !.closeOut = @ + 1]
    /\ pc' = "done"
    /\ UNCHANGED <<clientVars, tv, inq, inClosed, outq, closed, dv, pstate, cstate, sent,
                   received>>

\* processTermination: for !ch.buffer.IsEmpty() { v, _ := ch.buffer.Pop()
TermBufPop ==
    /\ pc = "term_buf" /\ tv = <<>> /\ ~IsEmpty(rb)
    /\ tv' = <<Pop(rb).v>>
    /\ rb' = Pop(rb).rb
    /\ UNCHANGED <<clientVars, inq, inClosed, outq, outClosed, closed, pc, dv, pstate, cstate,
                   sent, received, hist>>

\* processTermination: ch.out <- v, for the value popped from the buffer
TermBufSend ==
    /\ pc = "term_buf" /\ tv # <<>> /\ OutReady
    /\ SendOut(tv[1]) /\ tv' = <<>>
    /\ hist' = SentOut(hist)
    /\ UNCHANGED <<clientVars, inq, inClosed, outClosed, closed, rb, pc, dv, pstate, sent>>

\* processTermination: the buffer is empty, ch.buffer.Reset()
TermBufDone ==
    /\ pc = "term_buf" /\ tv = <<>> /\ IsEmpty(rb)
    /\ rb' = Reset(rb)
    /\ pc' = "term_poped"
    /\ UNCHANGED <<clientVars, tv, inq, inClosed, outq, outClosed, closed, dv, pstate, cstate,
                   sent, received, hist>>

\* processTermination: if poped != nil { ch.out <- poped }
TermPoped ==
    /\ pc = "term_poped"
    /\ IF dv # Nil
       THEN OutReady /\ SendOut(dv) /\ hist' = SentOut(hist)
       ELSE UNCHANGED <<outq, cstate, received, hist>>
    /\ pc' = "term_in"
    /\ UNCHANGED <<clientVars, tv, inq, inClosed, outClosed, closed, rb, dv, pstate, sent>>

\* processTermination: for v := range ch.in, the receive of a buffered value
TermInRecv ==
    /\ pc = "term_in" /\ tv = <<>> /\ inq # <<>>
    /\ tv' = <<Head(inq)>>
    /\ inq' = Tail(inq)
    /\ UNCHANGED <<clientVars, inClosed, outq, outClosed, closed, rb, pc, dv, pstate, cstate,
                   sent, received, hist>>

\* processTermination: ch.out <- v, for the value received from ch.in
TermInSend ==
    /\ pc = "term_in" /\ tv # <<>> /\ OutReady
    /\ SendOut(tv[1]) /\ tv' = <<>>
    /\ hist' = SentOut(hist)
    /\ UNCHANGED <<clientVars, inq, inClosed, outClosed, closed, rb, pc, dv, pstate, sent>>

\* (mutant) out is closed before the values left in ch.in are forwarded
TermCloseOut_Early ==
    /\ pc = "term_in"
    /\ outClosed' = TRUE
    /\ hist' = [hist EXCEPT !.closeOut = @ + 1]
    /\ pc' = IF inq = <<>> /\ tv = <<>> THEN "done" ELSE "term_in"
    /\ UNCHANGED <<clientVars, tv, inq, inClosed, outq, closed, rb, dv, pstate, cstate, sent,
                   received>>

\* processTermination: the range over the closed ch.in ends, the deferred close(ch.out)
TermCloseOut ==
    /\ pc = "term_in" /\ tv = <<>> /\ inq = <<>>
    /\ outClosed' = TRUE
    /\ hist' = [hist EXCEPT !.closeOut = @ + 1]
    /\ pc' = "done"
    /\ UNCHANGED <<clientVars, tv, inq, inClosed, outq, closed, rb, dv, pstate, cstate, sent,
                   received>>

Dispatcher ==
    \/ WaitRecv \/ WaitClose \/ AdmitDirect \/ AdmitBuffer \/ ForceSend \/ ForceClose
    \/ DrainRecv \/ DrainSend \/ DrainClose
    \/ TermCloseIn \/ TermDrop \/ TermBufPop \/ TermBufSend \/ TermBufDone \/ TermPoped
    \/ TermInRecv \/ TermInSend
    \/ TermCloseOut

Producer == ProducerBegin \/ ProducerComplete \/ ProducerPanic

Consumer == ConsumerRecv \/ ConsumerPark \/ ConsumerSeeClosed

Closer ==
    \E k \in Closers :
        CloseCall(k) \/ CloseLock(k) \/ CloseDo(k) \/ CloseStore(k) \/ CloseReturn(k)

Next == Dispatcher \/ Producer \/ Consumer \/ Closer

Spec == Init /\ [][Next]_vars

\* Close() called several times, by two goroutines, racing with sends and receives
InitClose == InitWith(Configs, [nsend |-> RaceSend, ncalls |-> MaxCloseCalls, nnil |-> 0])

SpecClose == InitClose /\ [][Next]_vars

\* the configurations with a capped ring buffer that starts within its cap
Capped(c) == c.maxBufferSize > 0 /\ c.initBufferSize <= c.maxBufferSize

\* what the pipeline holds when nothing is received: ch.in, the ring buffer, ch.out and
\* the value the dispatcher holds in mustPutToBuffer
Capacity(c) == c.inChanSize + c.maxBufferSize + c.outChanSize + 1

\* fair runs: the producer attempts one send more than a capped pipeline holds
FairEnv(c) ==
    [nsend |-> IF Capped(c) THEN Capacity(c) + 1 ELSE FairSend, ncalls |-> 1, nnil |-> 0]

InitFair == \E c \in Configs : InitWith({c}, FairEnv(c))

\* the Go scheduler runs every goroutine that can take a step: the dispatcher goroutine
\* and the producer are scheduled fairly; the consumer and the closers are free not to act
FairSpec == InitFair /\ [][Next]_vars /\ WF_vars(Dispatcher) /\ WF_vars(Producer)

\* --- a client closes the channel returned by In(): close(ch.In())
ExternalCloseIn ==
    /\ ~inClosed
    /\ inClosed' = TRUE
    /\ UNCHANGED <<clientVars, tv, inq, outq, outClosed, closed, rb, pc, dv, pstate, cstate, sent,
                   received, hist>>

\* (mutant) the outer select does not test ok: the zero value is processed as a value
WaitRecvClosed_Forwards ==
    /\ pc = "wait" /\ inClosed /\ inq = <<>>
    /\ dv' = Nil /\ pc' = "admit"
    /\ UNCHANGED <<clientVars, tv, inq, inClosed, outq, outClosed, closed, rb, pstate, cstate,
                   sent, received, hist>>

\* outer select, case v, ok = <-ch.in on the closed and drained ch.in: ok is false, panic
WaitRecvClosed ==
    /\ pc = "wait" /\ inClosed /\ inq = <<>>
    /\ dv' = Nil /\ pc' = "panicked"
    /\ UNCHANGED <<clientVars, tv, inq, inClosed, outq, outClosed, closed, rb, pstate, cstate,
                   sent, received, hist>>

\* draining select, case v, ok = <-ch.in on the closed and drained ch.in: ok is false, panic
DrainRecvClosed ==
    /\ pc = "drain" /\ inClosed /\ inq = <<>>
    /\ dv' = Nil /\ pc' = "panicked"
    /\ UNCHANGED <<clientVars, tv, inq, inClosed, outq, outClosed, closed, rb, pstate, cstate,
                   sent, received, hist>>

\* processTermination: close(ch.in) on the closed ch.in panics, before close(ch.out) is
\* deferred
TermCloseInPanic ==
    /\ pc = "term" /\ inClosed
    /\ pc' = "panicked"
    /\ UNCHANGED <<clientVars, tv, inq, inClosed, outq, outClosed, closed, rb, dv, pstate,
                   cstate, sent, received, hist>>

\* the panic of the dispatcher goroutine is not recovered: the program ends
Alive == pc # "panicked"

NextExtClose ==
    \/ Alive /\ Next
    \/ Alive /\ ExternalCloseIn
    \/ WaitRecvClosed \/ DrainRecvClosed \/ TermCloseInPanic

InitExtClose == InitWith(Configs, [nsend |-> FairSend, ncalls |-> 1, nnil |-> 0])

\* a ChannX whose input channel a client may close
SpecExtClose == InitExtClose /\ [][NextExtClose]_vars

\* ------------------------------------------------------------ token buckets
RECURSIVE SumOver(_, _)
SumOver(f, S) ==
    IF S = {} THEN 0
    ELSE LET t == CHOOSE x \in S : TRUE IN f[t] + SumOver(f, S \ {t})

\* tokens acquired and not yet released, over all goroutines
Outstanding(h) == SumOver(h, Threads)

\* no call on the bucket is in progress
Quiescent == \A t \in Threads : tpc[t] = "idle"

InTryAcquire(p) == p \in {"a_max", "a_cas", "a_add", "a_undo", "m_lock", "m_locked"}

\* goroutine t moves to position p and the tokens held become h; acq: t is in TryAcquire.
\* Every goroutine inside a TryAcquire call notes whether max tokens are outstanding.
Step(t, p, h, acq) ==
    /\ tpc' = [tpc EXCEPT ![t] = p]
    /\ held' = h
    /\ sawFull' = [u \in Threads |->
          IF u = t
          THEN IF acq
               THEN \/ (IF tpc[t] = "idle" THEN Outstanding(held) = lcfg.max ELSE sawFull[t])
                    \/ Outstanding(h) = lcfg.max
               ELSE sawFull[t]
          ELSE IF InTryAcquire(tpc[u])
               THEN sawFull[u] \/ Outstanding(h) = lcfg.max
               ELSE sawFull[u]]
    /\ fresh' = IF acq /\ tpc[t] = "idle" THEN [fresh EXCEPT ![t] = rz.valid] ELSE fresh

\* TryAcquire of t returns r
Return(t, r) ==
    /\ res' = [res EXCEPT ![t] = IF r THEN "true" ELSE "false"]
    /\ nTrue' = IF r THEN nTrue + 1 ELSE nTrue
    /\ nFalse' = IF r THEN nFalse ELSE nFalse + 1

Take(t) == [held EXCEPT ![t] = @ + 1]
Give(t) == [held EXCEPT ![t] = IF @ > 0 THEN @ - 1 ELSE 0]

\* the largest uint32
MaxUint32 == 2 ^ UintBits - 1

\* (mutant) f.count is no wider than f.max
WrapCount_Narrow(x) == ((x + 2 ^ (UintBits - 1)) % (2 ^ UintBits)) - 2 ^ (UintBits - 1)

\* two's complement wrap-around of int64 arithmetic
WrapCount(x) == ((x + 2 ^ (2 * UintBits - 1)) % (2 ^ (2 * UintBits))) - 2 ^ (2 * UintBits - 1)

\* t writes v to f.count with a synchronising operation
WriteCount(t, v) ==
    /\ count' = WrapCount(v)
    /\ stale' = [u \in Threads |-> IF u = t THEN {} ELSE stale[u] \cup {count}]
    /\ staleMax' = [staleMax EXCEPT ![t] = {}]

\* t synchronises (an atomic operation, m.Lock()) without writing f.count
Sync(t) ==
    /\ stale' = [stale EXCEPT ![t] = {}]
    /\ staleMax' = [staleMax EXCEPT ![t] = {}]
    /\ UNCHANGED count

\* what a read of f.count without synchronisation may return to t
RacyCount(t) == stale[t] \cup {count}

\* what a read of f.max without synchronisation may return to t
RacyMax(t) == staleMax[t] \cup {lcfg.max}

CanCall(t) ==
    /\ tpc[t] = "idle" /\ nCalls < lenv.ncalls
    /\ phase.name \in {"free", "fill", "refill"}
CanRelease(t) ==
    /\ tpc[t] = "idle" /\ nRel < lenv.nrel
    /\ phase.name \in {"free", "drain"}
    /\ lcfg.balanced => held[t] > 0
CanResize(t) ==
    /\ tpc[t] = "idle" /\ rz.calls < lenv.nresize
    /\ phase.name = "free"

\* --- atomicTokenBucket
\* TryAcquire: count := atomic.LoadInt64(&f.count)
AtomicTryAcquire_Load(t) ==
    /\ lcfg.kind = "atomic" /\ CanCall(t)
    /\ nCalls' = nCalls + 1
    /\ lc' = [lc EXCEPT ![t] = count]
    /\ res' = [res EXCEPT ![t] = "none"]
    /\ Sync(t) /\ Step(t, "a_max", held, TRUE)
    /\ UNCHANGED <<chanVars, ringVars, opsVars, lcfg, mu, lm, nTrue, nFalse, nRel>>

\* TryAcquire: max := int64(atomic.LoadUint32(&f.max)), and the branch on count
AtomicTryAcquire_Max(t) ==
    /\ tpc[t] = "a_max"
    /\ lm' = [lm EXCEPT ![t] = lcfg.max]
    /\ Sync(t)
    /\ IF lc[t] < 0
       THEN Step(t, "a_cas", held, TRUE) /\ UNCHANGED <<res, nTrue, nFalse>>
       ELSE IF lc[t] >= lcfg.max
            THEN Step(t, "idle", held, TRUE) /\ Return(t, FALSE)
            ELSE Step(t, "a_add", held, TRUE) /\ UNCHANGED <<res, nTrue, nFalse>>
    /\ UNCHANGED <<chanVars, ringVars, opsVars, lcfg, mu, lc, nCalls, nRel>>

\* TryAcquire: if atomic.CompareAndSwapInt64(&f.count, count, 1) { return true }
AtomicTryAcquire_CAS(t) ==
    /\ tpc[t] = "a_cas"
    /\ IF count = lc[t]
       THEN WriteCount(t, 1) /\ Step(t, "idle", Take(t), TRUE) /\ Return(t, TRUE)
       ELSE Sync(t) /\ Step(t, "a_add", held, TRUE) /\ UNCHANGED <<res, nTrue, nFalse>>
    /\ UNCHANGED <<chanVars, ringVars, opsVars, lcfg, mu, lc, lm, nCalls, nRel>>

\* (mutant) the incremented count is not compared with max
Exceeds_Never(c, m) == FALSE

\* TryAcquire: if count > max
Exceeds(c, m) == c > m

\* TryAcquire: count = atomic.AddInt64(&f.count, 1); if count > max {...}; return true
AtomicTryAcquire_Add(t) ==
    /\ tpc[t] = "a_add"
    /\ WriteCount(t, count + 1)
    /\ lc' = [lc EXCEPT ![t] = WrapCount(count + 1)]
    /\ IF Exceeds(WrapCount(count + 1), lm[t])
       THEN Step(t, "a_undo", held, TRUE) /\ UNCHANGED <<res, nTrue, nFalse>>
       ELSE Step(t, "idle", Take(t), TRUE) /\ Return(t, TRUE)
    /\ UNCHANGED <<chanVars, ringVars, opsVars, lcfg, mu, lm, nCalls, nRel>>

\* (mutant) the failing TryAcquire does not take its increment back
AtomicTryAcquire_Undo_Skips(t) ==
    /\ tpc[t] = "a_undo"
    /\ Sync(t)
    /\ Step(t, "idle", held, TRUE) /\ Return(t, FALSE)
    /\ UNCHANGED <<chanVars, ringVars, opsVars, lcfg, mu, lc, lm, nCalls, nRel>>

\* TryAcquire: atomic.AddInt64(&f.count, -1); return false
AtomicTryAcquire_Undo(t) ==
    /\ tpc[t] = "a_undo"
    /\ WriteCount(t, count - 1)
    /\ Step(t, "idle", held, TRUE) /\ Return(t, FALSE)
    /\ UNCHANGED <<chanVars, ringVars, opsVars, lcfg, mu, lc, lm, nCalls, nRel>>

\* Release: if f.count <= 0 { return }, a read of f.count without synchronisation
AtomicRelease_Guard(t) ==
    /\ lcfg.kind = "atomic" /\ lenv.pkg = "tokenbucket" /\ CanRelease(t)
    /\ nRel' = nRel + 1
    /\ \E c \in RacyCount(t) :
          IF c <= 0
          THEN Step(t, "idle", Give(t), FALSE)
          ELSE Step(t, "ar_add", held, FALSE)
    /\ UNCHANGED <<chanVars, ringVars, opsVars, lcfg, count, mu, lc, lm, stale, staleMax, res, nCalls, nTrue, nFalse>>

\* Release: count := atomic.AddInt64(&f.count, -1); if count < 0 {...}
AtomicRelease_Add(t) ==
    /\ tpc[t] = "ar_add"
    /\ WriteCount(t, count - 1)
    /\ IF count - 1 < 0
       THEN Step(t, "ar_store", held, FALSE)
       ELSE Step(t, "idle", Give(t), FALSE)
    /\ UNCHANGED <<chanVars, ringVars, opsVars, lcfg, mu, lc, lm, res, nCalls, nTrue, nFalse, nRel>>

\* Release: atomic.StoreInt64(&f.count, 0)
AtomicRelease_Store(t) ==
    /\ tpc[t] = "ar_store"
    /\ WriteCount(t, 0)
    /\ Step(t, "idle", Give(t), FALSE)
    /\ UNCHANGED <<chanVars, ringVars, opsVars, lcfg, mu, lc, lm, res, nCalls, nTrue, nFalse, nRel>>

\* --- channelTokenBucket: count is len(l.ch), lcfg.max is cap(l.ch)
\* TryAcquire: select { case l.ch <- true: return true; default: return false }
ChannelTryAcquire(t) ==
    /\ lcfg.kind = "channel" /\ CanCall(t)
    /\ nCalls' = nCalls + 1
    /\ IF count < lcfg.max
       THEN count' = count + 1 /\ Step(t, "idle", Take(t), TRUE) /\ Return(t, TRUE)
       ELSE count' = count /\ Step(t, "idle", held, TRUE) /\ Return(t, FALSE)
    /\ UNCHANGED <<chanVars, ringVars, opsVars, lcfg, mu, lc, lm, stale, staleMax, nRel>>

\* (mutant) Release leaves the channel as it is
ChannelRelease_Keeps(t) ==
    /\ lcfg.kind = "channel" /\ CanRelease(t)
    /\ nRel' = nRel + 1
    /\ count' = count
    /\ Step(t, "idle", Give(t), FALSE)
    /\ UNCHANGED <<chanVars, ringVars, opsVars, lcfg, mu, lc, lm, stale, staleMax, res, nCalls, nTrue, nFalse>>

\* Release: select { case <-l.ch: default: }
ChannelRelease(t) ==
    /\ lcfg.kind = "channel" /\ CanRelease(t)
    /\ nRel' = nRel + 1
    /\ count' = IF count > 0 THEN count - 1 ELSE count
    /\ Step(t, "idle", Give(t), FALSE)
    /\ UNCHANGED <<chanVars, ringVars, opsVars, lcfg, mu, lc, lm, stale, staleMax, res, nCalls, nTrue, nFalse>>

\* --- mutexTokenBucket
\* TryAcquire: if f.count >= int64(f.max) { return false }, read without the lock
MutexTryAcquire_Peek(t) ==
    /\ lcfg.kind = "mutex" /\ CanCall(t)
    /\ nCalls' = nCalls + 1
    /\ \E c \in RacyCount(t), m \in RacyMax(t) :
          IF c >= m
          THEN Step(t, "idle", held, TRUE) /\ Return(t, FALSE)
          ELSE /\ Step(t, "m_lock", held, TRUE)
               /\ res' = [res EXCEPT ![t] = "none"] /\ UNCHANGED <<nTrue, nFalse>>
    /\ UNCHANGED <<chanVars, ringVars, opsVars, lcfg, count, mu, lc, lm, stale, staleMax, nRel>>

\* TryAcquire: f.m.Lock()
MutexTryAcquire_Lock(t) ==
    /\ tpc[t] = "m_lock" /\ mu = NoOne
    /\ mu' = t
    /\ Sync(t) /\ Step(t, "m_locked", held, TRUE)
    /\ UNCHANGED <<chanVars, ringVars, opsVars, lcfg, lc, lm, res, nCalls, nTrue, nFalse, nRel>>

\* (mutant) TryAcquire does not compare f.count with f.max again once it holds the lock
MutexTryAcquire_Locked_Unchecked(t) ==
    /\ tpc[t] = "m_locked"
    /\ mu' = NoOne
    /\ WriteCount(t, count + 1) /\ Step(t, "idle", Take(t), TRUE) /\ Return(t, TRUE)
    /\ UNCHANGED <<chanVars, ringVars, opsVars, lcfg, lc, lm, nCalls, nRel>>

\* TryAcquire: if f.count >= int64(f.max) { return false }; f.count++; return true; Unlock
MutexTryAcquire_Locked(t) ==
    /\ tpc[t] = "m_locked"
    /\ mu' = NoOne
    /\ IF count >= lcfg.max
       THEN Sync(t) /\ Step(t, "idle", held, TRUE) /\ Return(t, FALSE)
       ELSE WriteCount(t, count + 1) /\ Step(t, "idle", Take(t), TRUE) /\ Return(t, TRUE)
    /\ UNCHANGED <<chanVars, ringVars, opsVars, lcfg, lc, lm, nCalls, nRel>>

\* Release: if f.count == 0 { return }, read without the lock
MutexRelease_Peek(t) ==
    /\ lcfg.kind = "mutex" /\ CanRelease(t)
    /\ nRel' = nRel + 1
    /\ \E c \in RacyCount(t) :
          IF c = 0
          THEN Step(t, "idle", Give(t), FALSE)
          ELSE Step(t, "mr_lock", held, FALSE)
    /\ UNCHANGED <<chanVars, ringVars, opsVars, lcfg, count, mu, lc, lm, stale, staleMax, res, nCalls, nTrue, nFalse>>

\* Release: f.m.Lock()
MutexRelease_Lock(t) ==
    /\ tpc[t] = "mr_lock" /\ mu = NoOne
    /\ mu' = t
    /\ Sync(t) /\ Step(t, "mr_locked", held, FALSE)
    /\ UNCHANGED <<chanVars, ringVars, opsVars, lcfg, lc, lm, res, nCalls, nTrue, nFalse, nRel>>

\* Release: if f.count == 0 { return }; f.count--; Unlock
MutexRelease_Locked(t) ==
    /\ tpc[t] = "mr_locked"
    /\ mu' = NoOne
    /\ IF count = 0 THEN Sync(t) ELSE WriteCount(t, count - 1)
    /\ Step(t, "idle", Give(t), FALSE)
    /\ UNCHANGED <<chanVars, ringVars, opsVars, lcfg, lc, lm, res, nCalls, nTrue, nFalse, nRel>>

TryAcquire(t) ==
    \/ AtomicTryAcquire_Load(t) \/ AtomicTryAcquire_Max(t) \/ AtomicTryAcquire_CAS(t)
    \/ AtomicTryAcquire_Add(t) \/ AtomicTryAcquire_Undo(t)
    \/ ChannelTryAcquire(t)
    \/ MutexTryAcquire_Peek(t) \/ MutexTryAcquire_Lock(t) \/ MutexTryAcquire_Locked(t)

Release(t) ==
    \/ AtomicRelease_Guard(t) \/ AtomicRelease_Add(t) \/ AtomicRelease_Store(t)
    \/ ChannelRelease(t)
    \/ MutexRelease_Peek(t) \/ MutexRelease_Lock(t) \/ MutexRelease_Locked(t)

NextBucket == \E t \in Threads : TryAcquire(t) \/ Release(t)

BucketKinds == {"atomic", "channel", "mutex"}

\* a token bucket of any kind and capacity, used by Threads; no ChannX traffic
InitBucket ==
    /\ \E k \in BucketKinds, n \in 0..MaxTokens, b \in BOOLEAN : newBucket(k, n, b)
    /\ Clients(MaxCalls, MaxRelease, 0, "tokenbucket", "free")
    /\ NoRing
    /\ InitChannX({[inChanSize |-> 0, outChanSize |-> 0, initBufferSize |-> 1,
                    maxBufferSize |-> 0, dropClosedBufferData |-> FALSE]},
                  [nsend |-> 0, ncalls |-> 0, nnil |-> 0])

SpecBucket == InitBucket /\ [][NextBucket]_vars

\* --- atomicLock (lock/maxinflight): Release has no guard
\* Release: count := atomic.AddInt64(&f.count, -1); if count < 0 {...}
AtomicLockRelease_Add(t) ==
    /\ lcfg.kind = "atomic" /\ lenv.pkg = "lock" /\ CanRelease(t)
    /\ nRel' = nRel + 1
    /\ WriteCount(t, count - 1)
    /\ IF count - 1 < 0
       THEN Step(t, "ar_store", held, FALSE)
       ELSE Step(t, "idle", Give(t), FALSE)
    /\ UNCHANGED <<chanVars, ringVars, opsVars, lcfg, mu, lc, lm, res, nCalls, nTrue, nFalse>>

\* --- Resize
RzBegin(r) ==
    [r EXCEPT !.calls = @ + 1, !.busy = @ + 1, !.valid = FALSE, !.overlap = (r.busy >= 1)]

\* a Resize(n) call returns, the capacity then being m
RzEnd(r, n, m) ==
    [r EXCEPT !.busy = @ - 1,
              !.valid = (r.busy = 1 /\ ~r.overlap),
              !.n = n,
              !.top = IF m > @ THEN m ELSE @]

\* goroutine t, in Resize, moves to position p
ResizeStep(t, p) ==
    /\ tpc' = [tpc EXCEPT ![t] = p]
    /\ fresh' = IF tpc[t] = "idle" THEN [u \in Threads |-> FALSE] ELSE fresh
    /\ UNCHANGED <<held, sawFull, res, nCalls, nTrue, nFalse, nRel, lc, lenv, phase, trio>>

\* t writes v to f.max with a synchronising operation
WriteMax(t, v) ==
    /\ lcfg' = [lcfg EXCEPT !.max = v]
    /\ staleMax' = [u \in Threads |-> IF u = t THEN {} ELSE staleMax[u] \cup {lcfg.max}]
    /\ stale' = [stale EXCEPT ![t] = {}]

\* atomicTokenBucket.Resize: if f.max != n, a read of f.max without synchronisation
AtomicResize_Guard(t) ==
    /\ lcfg.kind = "atomic" /\ CanResize(t)
    /\ \E n \in 0..MaxTokens, m \in RacyMax(t) :
          /\ lm' = [lm EXCEPT ![t] = n]
          /\ IF m # n
             THEN ResizeStep(t, "az_store") /\ rz' = RzBegin(rz)
             ELSE ResizeStep(t, "idle") /\ rz' = RzEnd(RzBegin(rz), n, lcfg.max)
    /\ UNCHANGED <<chanVars, ringVars, lcfg, count, mu, stale, staleMax>>

\* atomicTokenBucket.Resize: atomic.StoreUint32(&f.max, n)
AtomicResize_Store(t) ==
    /\ tpc[t] = "az_store"
    /\ WriteMax(t, lm[t])
    /\ ResizeStep(t, "idle") /\ rz' = RzEnd(rz, lm[t], lm[t])
    /\ UNCHANGED <<chanVars, ringVars, count, mu, lm>>

\* channelTokenBucket.Resize: not implemented
ChannelResize(t) ==
    /\ lcfg.kind = "channel" /\ CanResize(t)
    /\ \E n \in 0..MaxTokens :
          ResizeStep(t, "idle") /\ rz' = RzEnd(RzBegin(rz), n, lcfg.max)
    /\ UNCHANGED <<chanVars, ringVars, lcfg, count, mu, lm, stale, staleMax>>

\* mutexTokenBucket.Resize: if f.max == n { return }, read without the lock
MutexResize_Peek(t) ==
    /\ lcfg.kind = "mutex" /\ CanResize(t)
    /\ \E n \in 0..MaxTokens, m \in RacyMax(t) :
          /\ lm' = [lm EXCEPT ![t] = n]
          /\ IF m = n
             THEN ResizeStep(t, "idle") /\ rz' = RzEnd(RzBegin(rz), n, lcfg.max)
             ELSE ResizeStep(t, "mz_lock") /\ rz' = RzBegin(rz)
    /\ UNCHANGED <<chanVars, ringVars, lcfg, count, mu, stale, staleMax>>

\* mutexTokenBucket.Resize: f.m.Lock()
MutexResize_Lock(t) ==
    /\ tpc[t] = "mz_lock" /\ mu = NoOne
    /\ mu' = t
    /\ Sync(t) /\ ResizeStep(t, "mz_locked")
    /\ UNCHANGED <<chanVars, ringVars, lcfg, lm, rz>>

\* mutexTokenBucket.Resize: if f.max != n { f.max = n }; Unlock
MutexResize_Locked(t) ==
    /\ tpc[t] = "mz_locked"
    /\ mu' = NoOne
    /\ WriteMax(t, lm[t])
    /\ ResizeStep(t, "idle") /\ rz' = RzEnd(rz, lm[t], lm[t])
    /\ UNCHANGED <<chanVars, ringVars, count, lm>>

Resize(t) ==
    \/ AtomicResize_Guard(t) \/ AtomicResize_Store(t)
    \/ ChannelResize(t)
    \/ MutexResize_Peek(t) \/ MutexResize_Lock(t) \/ MutexResize_Locked(t)

\* --- the phased scenario: the clients wait for each other between the phases
\* (sync.WaitGroup), which orders every earlier write before every later read
Barrier ==
    /\ Quiescent
    /\ \/ /\ phase.name = "fill" /\ nTrue = lcfg.max
          /\ phase' = [phase EXCEPT !.name = "drain"]
       \/ /\ phase.name = "drain" /\ nRel >= 1
          /\ phase' = [name |-> "refill", k |-> nRel, true0 |-> nTrue, calls0 |-> nCalls]
    /\ stale' = [t \in Threads |-> {}]
    /\ staleMax' = [t \in Threads |-> {}]
    /\ UNCHANGED <<chanVars, ringVars, lcfg, count, mu, tpc, lc, held, res, sawFull, nCalls,
                   nTrue, nFalse, nRel, lenv, rz, lm, fresh, trio>>

NextOps ==
    \E t \in Threads : TryAcquire(t) \/ Release(t) \/ AtomicLockRelease_Add(t) \/ Resize(t)

\* count is never negative in the phased scenario: the compare-and-swap of TryAcquire and
\* the store of Release are never reached
NextPhased ==
    \/ \E t \in Threads :
          \/ AtomicTryAcquire_Load(t) \/ AtomicTryAcquire_Max(t)
          \/ AtomicTryAcquire_Add(t) \/ AtomicTryAcquire_Undo(t)
          \/ ChannelTryAcquire(t)
          \/ MutexTryAcquire_Peek(t) \/ MutexTryAcquire_Lock(t) \/ MutexTryAcquire_Locked(t)
          \/ AtomicRelease_Guard(t) \/ AtomicRelease_Add(t)
          \/ ChannelRelease(t)
          \/ MutexRelease_Peek(t) \/ MutexRelease_Lock(t) \/ MutexRelease_Locked(t)
    \/ Barrier

NextNearMax ==
    \E t \in Threads :
       \/ AtomicTryAcquire_Load(t) \/ AtomicTryAcquire_Max(t)
       \/ AtomicTryAcquire_Add(t) \/ AtomicTryAcquire_Undo(t)

\* free: any calls, Resize included, on a bucket of either package
InitFree ==
    /\ \E k \in BucketKinds, n \in 0..MaxTokens : newBucket(k, n, FALSE)
    /\ \E g \in {"tokenbucket", "lock"} : Clients(ResizeCalls, ResizeRelease, MaxResize, g, "free")

\* phased: acquire to capacity, release, acquire again
InitPhased ==
    \E k \in BucketKinds, n \in 1..MaxTokens :
       /\ newBucket(k, n, FALSE)
       /\ Clients(MaxCalls + 1, n, 0, "tokenbucket", "fill")

NearMax == [ncalls |-> MaxCalls, nrel |-> 0, nresize |-> 0, pkg |-> "near"]

\* the atomic bucket with the largest max and count a little below it, TryAcquire only
InitNearMax ==
    /\ \E b \in 0..MaxBelow :
          /\ lcfg = [kind |-> "atomic", max |-> MaxUint32, balanced |-> TRUE]
          /\ count = MaxUint32 - b
          /\ held = [t \in Threads |-> IF t = "t1" THEN MaxUint32 - b ELSE 0]
          /\ rz = [calls |-> 0, busy |-> 0, overlap |-> FALSE, valid |-> FALSE,
                   n |-> MaxUint32, top |-> MaxUint32]
          /\ phase = [name |-> "free", k |-> b, true0 |-> 0, calls0 |-> 0]
    /\ mu = NoOne
    /\ tpc = [t \in Threads |-> "idle"]
    /\ lc = [t \in Threads |-> 0]
    /\ stale = [t \in Threads |-> {}]
    /\ res = [t \in Threads |-> "none"]
    /\ sawFull = [t \in Threads |-> FALSE]
    /\ nCalls = 0 /\ nTrue = 0 /\ nFalse = 0 /\ nRel = 0
    /\ lm = [t \in Threads |-> 0]
    /\ staleMax = [t \in Threads |-> {}]
    /\ fresh = [t \in Threads |-> FALSE]
    /\ lenv = NearMax
    /\ trio = NewTrio(0)

\* no ChannX and no ring buffer beside the bucket
BucketOnly ==
    /\ NoRing
    /\ InitChannX({[inChanSize |-> 0, outChanSize |-> 0, initBufferSize |-> 1,
                    maxBufferSize |-> 0, dropClosedBufferData |-> FALSE]},
                  [nsend |-> 0, ncalls |-> 0, nnil |-> 0])

InitOps == InitFree /\ BucketOnly

SpecOps == InitOps /\ [][NextOps]_vars

InitPhases == InitPhased /\ BucketOnly

SpecPhased == InitPhases /\ [][NextPhased]_vars

InitNear == InitNearMax /\ BucketOnly

SpecNearMax == InitNear /\ [][NextNearMax]_vars

\* --- infinity (part_016:96-111): no state
\* (mutant) the infinity bucket admits no more than max callers
InfinityTryAcquire_Limited(t) ==
    /\ lcfg.kind = "infinity" /\ CanCall(t)
    /\ nCalls' = nCalls + 1
    /\ IF count < lcfg.max
       THEN count' = count + 1 /\ Step(t, "idle", Take(t), TRUE) /\ Return(t, TRUE)
       ELSE count' = count /\ Step(t, "idle", held, TRUE) /\ Return(t, FALSE)
    /\ UNCHANGED <<chanVars, ringVars, opsVars, lcfg, mu, lc, lm, stale, staleMax, nRel>>

\* TryAcquire: return true
InfinityTryAcquire(t) ==
    /\ lcfg.kind = "infinity" /\ CanCall(t)
    /\ nCalls' = nCalls + 1
    /\ Step(t, "idle", Take(t), TRUE) /\ Return(t, TRUE)
    /\ UNCHANGED <<chanVars, ringVars, opsVars, lcfg, count, mu, lc, lm, stale, staleMax, nRel>>

\* Release: empty body
InfinityRelease(t) ==
    /\ lcfg.kind = "infinity" /\ CanRelease(t)
    /\ nRel' = nRel + 1
    /\ Step(t, "idle", Give(t), FALSE)
    /\ UNCHANGED <<chanVars, ringVars, opsVars, lcfg, count, mu, lc, lm, stale, staleMax, res,
                   nCalls, nTrue, nFalse>>

\* Resize(n): empty body
InfinityResize(t) ==
    /\ lcfg.kind = "infinity" /\ CanResize(t)
    /\ \E n \in 0..MaxTokens :
          ResizeStep(t, "idle") /\ rz' = RzEnd(RzBegin(rz), n, lcfg.max)
    /\ UNCHANGED <<chanVars, ringVars, lcfg, count, mu, lm, stale, staleMax>>

NextInfinity ==
    \E t \in Threads : InfinityTryAcquire(t) \/ InfinityRelease(t) \/ InfinityResize(t)

\* NewInfinity() and its clients
InitInfinity ==
    /\ newBucket("infinity", 0, FALSE)
    /\ Clients(MaxCalls, MaxRelease, MaxResize, "tokenbucket", "free")
    /\ BucketOnly

SpecInfinity == InitInfinity /\ [][NextInfinity]_vars

\* --- the three strategies given the same calls, one call at a time: with nothing
\* running in between, each method runs from its first statement to its return
\* atomicTokenBucket.TryAcquire
SeqAtomicTryAcquire(c, max) ==
    IF c < 0 THEN [ok |-> TRUE, c |-> 1]
    ELSE IF c >= max THEN [ok |-> FALSE, c |-> c]
    ELSE IF Exceeds(WrapCount(c + 1), max)
         THEN [ok |-> FALSE, c |-> WrapCount(WrapCount(c + 1) - 1)]
         ELSE [ok |-> TRUE, c |-> WrapCount(c + 1)]

\* atomicTokenBucket.Release
SeqAtomicRelease(c) ==
    IF c <= 0 THEN c
    ELSE IF WrapCount(c - 1) < 0 THEN 0 ELSE WrapCount(c - 1)

\* channelTokenBucket.TryAcquire, c is len(l.ch) and max is cap(l.ch)
SeqChannelTryAcquire(c, max) ==
    IF c < max THEN [ok |-> TRUE, c |-> c + 1] ELSE [ok |-> FALSE, c |-> c]

\* channelTokenBucket.Release
SeqChannelRelease(c) == IF c > 0 THEN c - 1 ELSE c

\* mutexTokenBucket.TryAcquire
SeqMutexTryAcquire(c, max) ==
    IF c >= max THEN [ok |-> FALSE, c |-> c]
    ELSE IF c >= max THEN [ok |-> FALSE, c |-> c]
    ELSE [ok |-> TRUE, c |-> WrapCount(c + 1)]

\* (mutant) Release decrements without looking at f.count
SeqMutexRelease_Underflows(c) == WrapCount(c - 1)

\* mutexTokenBucket.Release
SeqMutexRelease(c) ==
    IF c = 0 THEN c
    ELSE IF c = 0 THEN c
    ELSE WrapCount(c - 1)

\* TryAcquire on each of the three buckets
SeqTryAcquire ==
    /\ trio.n < MaxSeq
    /\ LET a == SeqAtomicTryAcquire(trio.atomic, trio.max)
           c == SeqChannelTryAcquire(trio.channel, trio.max)
           m == SeqMutexTryAcquire(trio.mutex, trio.max)
       IN  trio' = [trio EXCEPT !.n = @ + 1, !.last = "TryAcquire",
                                !.atomic = a.c, !.channel = c.c, !.mutex = m.c,
                                !.res = [atomic |-> a.ok, channel |-> c.ok, mutex |-> m.ok]]
    /\ UNCHANGED <<chanVars, ringVars, lcfg, count, mu, tpc, lc, held, stale, res, sawFull,
                   nCalls, nTrue, nFalse, nRel, lenv, rz, phase, lm, staleMax, fresh>>

\* Release on each of the three buckets
SeqRelease ==
    /\ trio.n < MaxSeq
    /\ trio' = [trio EXCEPT !.n = @ + 1, !.last = "Release",
                            !.atomic = SeqAtomicRelease(@),
                            !.channel = SeqChannelRelease(@),
                            !.mutex = SeqMutexRelease(@)]
    /\ UNCHANGED <<chanVars, ringVars, lcfg, count, mu, tpc, lc, held, stale, res, sawFull,
                   nCalls, nTrue, nFalse, nRel, lenv, rz, phase, lm, staleMax, fresh>>

NextSeq == SeqTryAcquire \/ SeqRelease

\* the three buckets are made with the same capacity
InitSeq ==
    /\ newBucket("atomic", 0, TRUE)
    /\ lenv = [ncalls |-> 0, nrel |-> 0, nresize |-> 0, pkg |-> "tokenbucket"]
    /\ phase = [name |-> "free", k |-> 0, true0 |-> 0, calls0 |-> 0]
    /\ \E n \in 0..MaxUint32 : trio = NewTrio(n)
    /\ BucketOnly

SpecSeq == InitSeq /\ [][NextSeq]_vars

\* ------------------------------------------------------------------ ring buffer on its own
\* an index expression rb.buf[i] with i outside the slice panics
OutOfRange(b, i) == i < 0 \/ i >= Len(b.buf)

\* rb.Put(v); v is the number of the Put among the successful ones
RbPut ==
    /\ ~rh.panic /\ rh.nput < MaxPut
    /\ LET v == rh.nput + 1
           p == Put(ring, v)
       IN  IF ~IsFull(ring) /\ OutOfRange(ring, ring.w)
           THEN /\ rh' = [rh EXCEPT !.last = "put", !.panic = TRUE]
                /\ UNCHANGED ring
           ELSE /\ ring' = p.rb
                /\ rh' = [rh EXCEPT !.last = "put", !.ok = p.ok, !.v = v,
                                    !.q = IF p.ok THEN Append(@, v) ELSE @,
                                    !.nput = IF p.ok THEN @ + 1 ELSE @,
                                    !.grewWrapped = @ \/ (p.rb.size > ring.size /\ ring.r > 0)]
    /\ UNCHANGED <<chanVars, limVars>>

\* rb.Peek()
RbPeek ==
    /\ ~rh.panic
    /\ IF ~IsEmpty(ring) /\ OutOfRange(ring, ring.r)
       THEN rh' = [rh EXCEPT !.last = "peek", !.panic = TRUE]
       ELSE rh' = [rh EXCEPT !.last = "peek", !.ok = Peek(ring).ok, !.v = Peek(ring).v]
    /\ UNCHANGED <<ring, chanVars, limVars>>

\* rb.Pop()
RbPop ==
    /\ ~rh.panic
    /\ LET p == Pop(ring) IN
       IF ~IsEmpty(ring) /\ OutOfRange(ring, ring.r)
       THEN /\ rh' = [rh EXCEPT !.last = "pop", !.panic = TRUE]
            /\ UNCHANGED ring
       ELSE /\ ring' = p.rb
            /\ rh' = [rh EXCEPT !.last = "pop", !.ok = p.ok, !.v = p.v,
                                !.q = IF p.ok /\ @ # <<>> THEN Tail(@) ELSE @,
                                !.npop = IF p.ok THEN @ + 1 ELSE @,
                                !.popped = IF p.ok THEN Append(@, p.v) ELSE @]
    /\ UNCHANGED <<chanVars, limVars>>

\* rb.Reset()
RbReset ==
    /\ ~rh.panic
    /\ ring' = Reset(ring)
    /\ rh' = [rh EXCEPT !.last = "reset", !.q = <<>>, !.reset = TRUE]
    /\ UNCHANGED <<chanVars, limVars>>

NextRing == RbPut \/ RbPeek \/ RbPop \/ RbReset

\* no ChannX and no bucket beside the ring buffer
RingOnly ==
    /\ NoBucket
    /\ InitChannX({[inChanSize |-> 0, outChanSize |-> 0, initBufferSize |-> 1,
                    maxBufferSize |-> 0, dropClosedBufferData |-> FALSE]},
                  [nsend |-> 0, ncalls |-> 0, nnil |-> 0])

\* every pair (initSize, maxSize), negative, zero and initSize > maxSize included
InitRing ==
    /\ \E i \in -1..MaxRingSize, m \in -1..MaxRingSize : NewRing(i, m)
    /\ RingOnly

SpecRing == InitRing /\ [][NextRing]_vars

\* --- growCap on its own, called as the tests call it: on a struct with size and maxSize
GrowMaxSizes ==
    {0, 1, 5, growThreshold - 1, growThreshold, growThreshold + 1, 2 * growThreshold,
     MaxInt \div 2, MaxInt - 5, MaxInt}

InitGrowCap ==
    /\ \E s \in 0..MaxInt, m \in GrowMaxSizes :
          ring = [buf |-> <<>>, initSize |-> 0, maxSize |-> m, size |-> s,
                  r |-> 0, w |-> 0, full |-> FALSE]
    /\ rh = RingHist0
    /\ RingOnly

\* rb.growCap()
RbGrowCap ==
    /\ rh.last = "new"
    /\ rh' = [rh EXCEPT !.last = "growCap", !.v = growCap(ring)]
    /\ UNCHANGED <<ring, chanVars, limVars>>

NextGrowCap == RbGrowCap

SpecGrowCap == InitGrowCap /\ [][NextGrowCap]_vars

\* ------------------------------------------------------------------ claims
IsPrefix(p, q) == Len(p) <= Len(q) /\ SubSeq(q, 1, Len(p)) = p

\* p occurs in q as a block of consecutive elements
IsInfix(p, q) == \E k \in 0..(Len(q) - Len(p)) : SubSeq(q, k + 1, k + Len(p)) = p

\* the values whose send on In() completed before Close() was first called
SentBeforeClose == SubSeq(sent, 1, closeCalledAt)

\* no send completed after Close() was first called
NoLateSend == closeCalledAt = Len(sent)

\* C1: under the non-drop policy, when every send completed before Close() was
\* called, the values received from Out() up to its closure are exactly the values
\* sent, in order, nothing lost and nothing duplicated.
C1_FIFO ==
    (cstate = "closed" /\ ~cfg.dropClosedBufferData /\ NoLateSend) => received = SentBeforeClose

\* the same for the runs in which no nil value is sent
FIFOWithoutNil ==
    (cstate = "closed" /\ ~cfg.dropClosedBufferData /\ NoLateSend /\ nNil = 0)
        => received = SentBeforeClose

\* the runs in which a nil value is held by the dispatcher when it sees the close signal
NilHeldAtClose == pc = "term_poped" /\ dv = Nil /\ hist.pending # Contents(rb) \o inq

\* C2 as stated: no step closes ch.in and no send on In() panics.
C2_InNeverClosed == ~inClosed /\ pstate # "panicked"

\* C2 as amended: ch.in is closed by processTermination alone, once, after the
\* dispatcher has observed the close signal; a send panics only after that.
C2_InClosedOnlyByTermination ==
    /\ hist.closeIn = (IF inClosed THEN 1 ELSE 0)
    /\ inClosed => /\ closed /\ hist.termination = 1
                   /\ pc \in {"term_drop", "term_buf", "term_poped", "term_in", "done"}
    /\ pstate = "panicked" => inClosed /\ closeCalledAt # -1

\* a send that raced with Close() has panicked
C2_Witness == pstate = "panicked" /\ inClosed /\ pc = "done"

\* when the dispatcher has closed out under the non-drop policy, the values pending at
\* the close signal have been sent on out, in order
PendingDelivered ==
    (pc = "done" /\ ~cfg.dropClosedBufferData) => IsInfix(hist.pending, received \o outq)

\* the graceful close delivers everything while no nil value is sent
PendingDeliveredWithoutNil == nNil = 0 => PendingDelivered

\* C4: under the non-drop policy, when the dispatcher has closed out, every value that
\* was in the ring buffer, held by the dispatcher or buffered in ch.in when it observed
\* the close signal has been sent on out.
C4_PendingDelivered == \A c \in {cfg} : ~c.dropClosedBufferData => PendingDelivered

\* C6: with DropClosedBufferData, no value that was in the ring buffer or in the input
\* channel buffer when Close() returned is ever received from Out().
C6_DroppedNeverDelivered ==
    cfg.dropClosedBufferData => hist.snap \cap Range(received) = {}

\* C7: any number of Close() calls, racing with each other and with sends and
\* receives, close the close signal exactly once, none of them panics on closing a
\* closed channel, and the dispatcher runs processTermination at most once.
C7_CloseOnce ==
    /\ hist.closeSignal <= 1
    /\ ~hist.closePanic
    /\ hist.termination <= 1
    /\ hist.closeRet => hist.closeSignal = 1 /\ closed

\* a Close() call holds the Once's lock after another call has closed the signal, and
\* a further call has been made
C7_Witness ==
    /\ onceDone /\ \E k \in Closers : kpc[k] = "locked"
    /\ nCloseCalls = MaxCloseCalls /\ hist.termination = 1

\* C5 (safety part): with DropClosedBufferData the values that left through out are a
\* prefix of the values sent, and nothing is sent on out once the close signal is observed.
DropSafe ==
    cfg.dropClosedBufferData =>
        /\ IsPrefix(received \o outq, sent)
        /\ hist.afterClose = 0

\* C5: with DropClosedBufferData, what is received from Out() is a prefix of what was
\* sent on In(); once the dispatcher has observed the close signal it sends nothing
\* more on out; and once the close signal is fired out is eventually closed, whether
\* or not a consumer receives.
C5_DropOnClose ==
    /\ [] DropSafe
    /\ (cfg.dropClosedBufferData /\ closed) ~> outClosed

\* out was closed with values dropped and nothing ever received
C5_Witness ==
    /\ cfg.dropClosedBufferData /\ pc = "done" /\ outClosed
    /\ received = <<>> /\ cstate = "idle" /\ Len(sent) >= 3 /\ Len(outq) < Len(sent)

\* C8 (safety part): in a capped pipeline, while nothing is received and Close() is not
\* called, at most Capacity sends complete, and once they have the next send finds ch.in
\* full and the dispatcher not receiving
Backpressure ==
    (Capped(cfg) /\ received = <<>> /\ closeCalledAt = -1) =>
        /\ Len(sent) <= Capacity(cfg)
        /\ Len(sent) = Capacity(cfg) =>
              Len(inq) = cfg.inChanSize /\ pc \in {"admit", "force"}

\* C8 (the test): inChanSize = outChanSize = init = max = 1, four sends, Close(), then
\* the consumer reads the four values in order and sees out closed
FullExample ==
    (/\ cfg = [inChanSize |-> 1, outChanSize |-> 1, initBufferSize |-> 1,
               maxBufferSize |-> 1, dropClosedBufferData |-> FALSE]
     /\ closeCalledAt = 4 /\ Len(sent) = 4 /\ cstate = "closed")
        => received = <<1, 2, 3, 4>>

\* C8: with inChanSize = i, outChanSize = o, InitBufferSize <= MaxBufferSize = m > 0,
\* while nothing is received and Close() is not called, the first i + m + o + 1 sends
\* eventually complete and the next one stays blocked.
C8_Backpressure ==
    /\ [] Backpressure
    /\ [] FullExample
    /\ Capped(cfg) => <>(received # <<>> \/ closeCalledAt # -1 \/ Len(sent) >= Capacity(cfg))

\* the pipeline of the test is full: four sends completed, the fifth is blocked
C8_Witness ==
    /\ cfg = [inChanSize |-> 1, outChanSize |-> 1, initBufferSize |-> 1,
              maxBufferSize |-> 1, dropClosedBufferData |-> FALSE]
    /\ sent = <<1, 2, 3, 4>> /\ pstate = "sending" /\ pval = 5 /\ pc = "force"
    /\ received = <<>> /\ closeCalledAt = -1

\* C9: with MaxBufferSize = 0 and Close() not called, every send on In() eventually
\* completes under a fair dispatcher, with or without a consumer: the dispatcher never
\* waits on out alone.
C9_UnboundedNeverBlocks ==
    /\ [](cfg.maxBufferSize = 0 => pc # "force")
    /\ (cfg.maxBufferSize = 0 /\ pstate = "sending") ~> (pstate = "idle" \/ closeCalledAt # -1)

\* every send completed and the ring buffer grew, with nothing received
C9_Witness ==
    /\ cfg.maxBufferSize = 0 /\ Len(sent) = FairSend /\ received = <<>>
    /\ cstate = "idle" /\ closeCalledAt = -1 /\ Cap(rb) > cfg.initBufferSize

Min(a, b) == IF a < b THEN a ELSE b

\* C3: for the atomic, channel and mutex strategies with capacity max, while no Release
\* was called, the number of TryAcquire calls that returned true never exceeds max, and
\* whenever all calls begun have returned it equals min(max, number of calls).
C3_LimiterBound ==
    nRel = 0 =>
        /\ nTrue <= lcfg.max
        /\ Quiescent => nTrue = Min(lcfg.max, nCalls)

\* 2 * max callers of the atomic bucket raced, max of them succeeded
C3_Witness ==
    /\ lcfg.kind = "atomic" /\ lcfg.max = 2 /\ nRel = 0
    /\ nCalls = 2 * lcfg.max /\ Quiescent /\ nTrue = 2 /\ nFalse = 2
    /\ \E t \in Threads : held[t] = 0 /\ res[t] = "false" /\ lc[t] = 3

\* C10: with a fixed max and clients that release only tokens they hold, a TryAcquire
\* call returns false only if max tokens were outstanding at some instant of the call.
C10_FalseOnlyWhenFull ==
    lcfg.balanced => \A t \in Threads : res[t] = "false" => sawFull[t]

\* C10 for the channel strategy alone
C10_ChannelExact ==
    (lcfg.balanced /\ lcfg.kind = "channel") => \A t \in Threads : res[t] = "false" => sawFull[t]

\* C10 for the atomic strategy alone
C10_AtomicExact ==
    (lcfg.balanced /\ lcfg.kind = "atomic") => \A t \in Threads : res[t] = "false" => sawFull[t]

\* C10 for the mutex strategy alone
C10_MutexExact ==
    (lcfg.balanced /\ lcfg.kind = "mutex") => \A t \in Threads : res[t] = "false" => sawFull[t]

\* ------------------------------------------------------------------ claims, token bucket operations
\* C11 (as stated): for the mutex and the channel bucket, 0 <= count <= max in every state,
\* max being the capacity configured now
C11_CountWithinMax ==
    lcfg.kind \in {"mutex", "channel"} => 0 <= count /\ count <= lcfg.max

\* goroutine t returns from TryAcquire with r in this step
Returns(t, r) == InTryAcquire(tpc[t]) /\ tpc'[t] = "idle" /\ res'[t] = r

\* a TryAcquire call returns true, returns false, in this step
ReturnsTrue == nTrue' = nTrue + 1
ReturnsFalse == nFalse' = nFalse + 1

\* C11: for the mutex and the channel bucket count is never negative and never above the
\* largest capacity configured so far; the channel's capacity is the one it was made with,
\* so there count <= max. Count rises only by one, by a TryAcquire that returns true, and
\* only from below the current max: while count >= max every TryAcquire that returns
\* returns false. Count gets above max only by a Resize that lowers max below count, and
\* no step that changes max changes count.
C11_CountWithinConfigured ==
    /\ [](lcfg.kind \in {"mutex", "channel"} =>
             /\ 0 <= count
             /\ count <= rz.top
             /\ lcfg.kind = "channel" => count <= lcfg.max)
    /\ [][lcfg.kind \in {"mutex", "channel"} =>
             /\ count' > count =>
                   /\ count' = count + 1 /\ count < lcfg.max /\ lcfg' = lcfg
                   /\ ReturnsTrue
             /\ ReturnsTrue => count < lcfg.max /\ count' = count + 1
             /\ (count >= lcfg.max /\ (ReturnsTrue \/ ReturnsFalse)) =>
                   ReturnsFalse /\ ~ReturnsTrue /\ count' = count
             /\ lcfg'.max # lcfg.max => count' = count
             /\ (count <= lcfg.max /\ count' > lcfg'.max) =>
                   lcfg'.max < lcfg.max /\ count' = count]_vars

\* mutex bucket: a Resize left count above max, and a TryAcquire that began after that
\* Resize had returned was refused
C11_Witness ==
    /\ lcfg.kind = "mutex" /\ Quiescent
    /\ rz.calls >= 1 /\ nRel >= 1
    /\ count > lcfg.max /\ count <= rz.top
    /\ \E t \in Threads : fresh[t] /\ res[t] = "false"

\* goroutine t is in Resize, or enters and leaves it, in this step
InResize(t) ==
    \/ tpc[t] \in {"az_store", "mz_lock", "mz_locked"}
    \/ tpc'[t] \in {"az_store", "mz_lock", "mz_locked"}
    \/ rz'.calls > rz.calls

\* C12: atomic bucket: no step of Resize changes count, and a TryAcquire that began after
\* Resize(n) returned, no other Resize having begun since, returns true only if it leaves
\* count <= n
C12_ResizeIsCeiling ==
    [][lcfg.kind = "atomic" =>
         \A t \in Threads :
            /\ InResize(t) /\ tpc'[t] # tpc[t] => count' = count
            /\ InResize(t) /\ rz'.calls > rz.calls /\ tpc'[t] = tpc[t] /\ tpc[t] = "idle"
                   /\ (\A u \in Threads : tpc'[u] = tpc[u]) => count' = count
            /\ Returns(t, "true") /\ fresh[t] => count' <= rz.n]_vars

\* C13: once max TryAcquire calls have succeeded and k Release calls have then completed,
\* at most k of the later TryAcquire calls return true, and when k or more of them have
\* returned exactly k did; with k = 1 the first succeeds and the second fails
C13_ReleaseThenReacquire ==
    /\ phase.name \in {"fill", "drain", "refill"} =>
           count >= 0 /\ \A t \in Threads : tpc[t] \notin {"a_cas", "ar_store"}
    /\ phase.name = "refill" =>
        /\ phase.k >= 1 /\ phase.k <= lcfg.max
        /\ nTrue - phase.true0 <= phase.k
        /\ Quiescent /\ nCalls - phase.calls0 >= phase.k => nTrue - phase.true0 = phase.k
        /\ Quiescent /\ phase.k = 1 /\ nCalls - phase.calls0 = 1 => nTrue - phase.true0 = 1
        /\ Quiescent /\ phase.k = 1 /\ nCalls - phase.calls0 = 2 =>
               nTrue - phase.true0 = 1 /\ \E t \in Threads : res[t] = "false"

C13_Witness ==
    /\ phase.name = "refill" /\ Quiescent
    /\ phase.k = 1 /\ lcfg.max = 2
    /\ nCalls - phase.calls0 = 2
    /\ nTrue - phase.true0 = 1

\* C20: atomic bucket with the largest max and count = max - k, TryAcquire calls only:
\* count never wraps (it stays >= max - k), never exceeds max plus the calls in progress,
\* at most k calls return true, and once k or more calls have returned exactly k did
C20_NoOverflow ==
    lenv = NearMax =>
        /\ count >= MaxUint32 - phase.k
        /\ count <= lcfg.max + Cardinality({t \in Threads : InTryAcquire(tpc[t])})
        /\ nTrue <= phase.k
        /\ Quiescent /\ nCalls >= phase.k => nTrue = phase.k

C20_Witness ==
    /\ lenv = NearMax /\ lcfg.max = MaxUint32
    /\ phase.k = MaxBelow
    /\ count = MaxUint32 + 1
    /\ nTrue = phase.k

\* ------------------------------------------------------------------ claims, ring buffer
\* C14: Put returns false only if maxSize > 0 and Len() = Cap() = maxSize (the buffer before
\* and after the failed Put is the same); with maxSize = 0 Put never returns false
C14_PutFailsOnlyAtMax ==
    rh.last = "put" /\ ~rh.panic /\ ~rh.ok =>
        /\ ring.maxSize > 0
        /\ BufLen(ring) = Cap(ring)
        /\ Cap(ring) = ring.maxSize

\* C15: under Put and Pop alone the values returned by successful Pops are the values
\* accepted by successful Puts (1, 2, 3, ...) in that order, the buffer holds the values
\* not yet returned, and after as many Pops as Puts it is empty and not full
C15_FIFO ==
    ~rh.reset =>
        /\ rh.popped = [k \in 1..rh.npop |-> k]
        /\ rh.npop <= rh.nput
        /\ Contents(ring) = [k \in 1..(rh.nput - rh.npop) |-> rh.npop + k]
        /\ rh.npop = rh.nput => IsEmpty(ring) /\ ~IsFull(ring)

C15_Witness ==
    /\ ~rh.reset /\ rh.grewWrapped
    /\ rh.nput = MaxPut /\ rh.npop = rh.nput
    /\ rh.last = "pop" /\ rh.ok /\ rh.v = MaxPut

\* C16: after Reset, Cap() = initSize, both cursors are 0, IsEmpty() holds, IsFull() does
\* not and Len() = 0; IsFull() never holds while no value is queued
C16_ResetEmpties ==
    /\ rh.last = "reset" =>
          /\ Cap(ring) = ring.initSize
          /\ ring.r = 0 /\ ring.w = 0
          /\ IsEmpty(ring) /\ ~IsFull(ring)
          /\ BufLen(ring) = 0
    /\ rh.q = <<>> => ~IsFull(ring)

\* C17: the buffer is created with Cap() >= 1, the cursors stay in [0, Cap()), and no call
\* indexes outside the backing store
C17_NoPanic ==
    /\ Cap(ring) >= 1
    /\ 0 <= ring.r /\ ring.r < Cap(ring)
    /\ 0 <= ring.w /\ ring.w < Cap(ring)
    /\ ~rh.panic

\* C18: under Put and Pop alone, Len() is the number of successful Puts minus the number of
\* successful Pops, 0 <= Len() <= Cap(), and Len() is 0 when empty, Cap() when full,
\* w - r when w > r and size - r + w when w < r
C18_Len ==
    ~rh.reset =>
        /\ BufLen(ring) = rh.nput - rh.npop
        /\ 0 <= BufLen(ring) /\ BufLen(ring) <= Cap(ring)
        /\ IsEmpty(ring) => BufLen(ring) = 0
        /\ IsFull(ring) => BufLen(ring) = Cap(ring)
        /\ ring.w > ring.r => BufLen(ring) = ring.w - ring.r
        /\ ring.w < ring.r => BufLen(ring) = ring.size - ring.r + ring.w

C18_Witness ==
    /\ ~rh.reset /\ rh.grewWrapped
    /\ ring.w < ring.r
    /\ BufLen(ring) = 3 /\ rh.npop = 2

\* the result the claim gives for growCap, in unbounded integers
GrowCapClaimed(size, maxSize) ==
    IF maxSize > 0 /\ size >= maxSize THEN size
    ELSE LET raw == IF size < growThreshold
                    THEN IF 2 * size > MaxInt THEN MaxInt ELSE 2 * size
                    ELSE IF size + 3 * growThreshold > MaxInt THEN MaxInt
                    ELSE IF size + (size + 3 * growThreshold) \div 4 > MaxInt THEN MaxInt
                    ELSE size + (size + 3 * growThreshold) \div 4
         IN  IF maxSize > 0 /\ raw > maxSize THEN maxSize ELSE raw

\* C19 (as stated): for every size and maxSize growCap returns what the claim gives
C19_GrowCapAnySize ==
    rh.last = "growCap" => rh.v = GrowCapClaimed(ring.size, ring.maxSize)

\* C19, for the sizes of a buffer that holds values (size >= 1)
C19_GrowCap ==
    rh.last = "growCap" /\ ring.size >= 1 => rh.v = GrowCapClaimed(ring.size, ring.maxSize)

\* ------------------------------------------------------------------ claims, frame and accounting
\* C23: a Put that returns false leaves buf, r, w, full, Len() and Cap() as they were
C23_FailedPutChangesNothing ==
    [][(rh'.last = "put" /\ ~rh'.panic /\ ~rh'.ok /\ rh'.nput = rh.nput) =>
          /\ ring' = ring
          /\ BufLen(ring') = BufLen(ring) /\ Cap(ring') = Cap(ring)
          /\ Contents(ring') = Contents(ring)]_vars

\* a Put was refused by a full buffer that holds MaxRingSize values
C23_Witness ==
    /\ rh.last = "put" /\ ~rh.ok /\ ~rh.panic /\ ~rh.reset
    /\ IsFull(ring) /\ rh.q = Contents(ring) /\ Len(rh.q) = MaxRingSize

\* TryAcquire calls of the atomic bucket that incremented count and have not yet
\* decremented it again
Speculative == Cardinality({t \in Threads : tpc[t] = "a_undo"})

\* C27: atomic bucket, fixed max, clients that release only tokens they hold: count is
\* the number of outstanding tokens plus the speculative increments not yet rolled back;
\* count >= 0, the compare-and-swap branch is never taken, the outstanding tokens never
\* exceed max, and with no call in progress count is the number of outstanding tokens
C27_AtomicAccounting ==
    (lcfg.kind = "atomic" /\ lcfg.balanced) =>
        /\ count = Outstanding(held) + Speculative
        /\ count >= 0
        /\ \A t \in Threads : tpc[t] # "a_cas"
        /\ Outstanding(held) <= lcfg.max
        /\ Quiescent => count = Outstanding(held)

\* two calls overshot a full bucket at once
C27_Witness ==
    /\ lcfg.kind = "atomic" /\ lcfg.balanced /\ lcfg.max = 1
    /\ Outstanding(held) = 1 /\ Speculative = 2 /\ count = 3
    /\ nRel >= 1

\* ------------------------------------------------------------------ claims, infinity and equivalence
\* C24: every TryAcquire on the infinity bucket returns true, whatever TryAcquire, Release
\* and Resize calls came before or run beside it
C24_InfinityAlwaysTrue ==
    lcfg.kind = "infinity" =>
        /\ nFalse = 0 /\ nTrue = nCalls
        /\ \A t \in Threads : res[t] # "false"

\* every call of the budget was made; the last TryAcquire began after Resize(0) returned
C24_Witness ==
    /\ lcfg.kind = "infinity"
    /\ nCalls = MaxCalls /\ nTrue = MaxCalls /\ nRel = MaxRelease
    /\ rz.calls >= 1 /\ rz.valid /\ rz.n = 0
    /\ \E t \in Threads : fresh[t] /\ res[t] = "true"

\* C30: in a sequential history of TryAcquire and Release calls on buckets of the same
\* capacity, the atomic, the channel and the mutex bucket return the same result for
\* every TryAcquire call (and hold the same count after every call)
C30_Interchangeable ==
    /\ trio.res.atomic = trio.res.channel /\ trio.res.channel = trio.res.mutex
    /\ trio.atomic = trio.channel /\ trio.channel = trio.mutex

\* the last call of a history of MaxSeq calls is a TryAcquire that the three full
\* buckets refuse
C30_Witness ==
    /\ trio.last = "TryAcquire" /\ trio.n = MaxSeq
    /\ trio.max = 2 /\ trio.channel = 2
    /\ trio.res = [atomic |-> FALSE, channel |-> FALSE, mutex |-> FALSE]

\* ------------------------------------------------------------------ claims, ChannX termination and buffer
\* everything the dispatcher has sent on out, in order
OutSeq == received \o outq

\* what the dispatcher has sent on out since it observed the close signal
SentAfterClose == SubSeq(OutSeq, Len(OutSeq) - hist.afterClose + 1, Len(OutSeq))

\* C25: under the non-drop policy, from the close signal on, out receives the values of
\* the ring buffer in order, then the value the dispatcher held, then the values left in
\* the input channel, and is closed only then; for every held value, nil included
C25_TerminationOrder ==
    (pc = "done" /\ ~cfg.dropClosedBufferData) => IsPrefix(hist.pending, SentAfterClose)

\* the same for the runs in which no nil value is sent
TerminationOrderWithoutNil ==
    (pc = "done" /\ ~cfg.dropClosedBufferData /\ nNil = 0) =>
        IsPrefix(hist.pending, SentAfterClose)

\* C26: with maxSize > 0 the ring buffer of a ChannX never has Cap() or Len() above
\* MaxBufferSize, whatever InitBufferSize is
C26_MaxRespected ==
    cfg.maxBufferSize > 0 =>
        /\ Cap(rb) <= cfg.maxBufferSize
        /\ BufLen(rb) <= cfg.maxBufferSize

\* the same for the configurations with InitBufferSize <= MaxBufferSize
MaxRespectedWhenCapped ==
    Capped(cfg) => Cap(rb) <= cfg.maxBufferSize /\ BufLen(rb) <= cfg.maxBufferSize

\* C28: the dispatcher closes out exactly once, as its last step: once out is closed it
\* sends nothing on out, touches neither the ring buffer nor ch.in, and never closes a
\* closed channel
C28_OutClosedLast ==
    /\ [](/\ hist.closeOut = (IF outClosed THEN 1 ELSE 0)
          /\ hist.closeIn <= 1
          /\ outClosed => pc = "done" /\ inClosed /\ tv = <<>>)
    /\ [][outClosed =>
             /\ outClosed' /\ pc' = pc
             /\ rb' = rb /\ inq' = inq /\ dv' = dv
             /\ IsPrefix(OutSeq', OutSeq)
             /\ hist'.closeOut = hist.closeOut /\ hist'.closeIn = hist.closeIn
             /\ hist'.afterClose = hist.afterClose]_vars

\* out was closed after a flush and the consumer has seen it
C28_Witness ==
    /\ outClosed /\ pc = "done" /\ ~cfg.dropClosedBufferData
    /\ hist.afterClose >= 2 /\ cstate = "closed" /\ pstate = "panicked"

\* C22: while the ChannX is open and its ring buffer is empty (the dispatcher waits in the
\* outer select or has just taken a value from ch.in), Cap() is InitBufferSize; outside
\* termination the capacity shrinks only by the Reset that follows the send to out and the
\* Pop that left the buffer empty
C22_CapacityRestored ==
    /\ [](/\ pc = "wait" => IsEmpty(rb)
          /\ (hist.termination = 0 /\ IsEmpty(rb)) => Cap(rb) = cfg.initBufferSize)
    /\ [][(hist'.termination = 0 /\ Cap(rb') < Cap(rb)) =>
             /\ pc = "drain" /\ BufLen(rb) = 1
             /\ OutSeq' = Append(OutSeq, Contents(rb)[1])
             /\ IsEmpty(rb') /\ Cap(rb') = cfg.initBufferSize
             /\ pc' = "wait"]_vars

\* the buffer had grown, was drained, and the open dispatcher waits with the initial capacity
C22_Witness ==
    /\ hist.grown /\ hist.termination = 0 /\ ~closed
    /\ pc = "wait" /\ IsEmpty(rb) /\ Cap(rb) = cfg.initBufferSize
    /\ Len(received) >= 2

\* --- the admit step (processObjectFromInput) for the value dv taken from ch.in
\* fast path: the buffer is empty, the non-blocking send succeeds, the buffer is untouched
FastPath ==
    /\ pc = "admit" /\ IsEmpty(rb) /\ OutReady
    /\ rb' = rb /\ OutSeq' = Append(OutSeq, dv)

\* Put succeeded: dv is queued behind everything queued, nothing is sent
Appended ==
    /\ pc = "admit" /\ ~(IsEmpty(rb) /\ OutReady)
    /\ Contents(rb') = Append(Contents(rb), dv) /\ OutSeq' = OutSeq

\* Put failed on a full buffer: the head was sent to out and dv queued behind the rest
ForcedIn ==
    /\ pc = "force" /\ IsFull(rb)
    /\ OutSeq' = Append(OutSeq, Head(Contents(rb)))
    /\ Contents(rb') = Append(Tail(Contents(rb)), dv)

\* Put failed on a full buffer and the close signal came before the head could be sent:
\* dv is not queued, termination gets it
HandedToTermination ==
    /\ pc = "force" /\ IsFull(rb) /\ closed
    /\ pc' = "term" /\ rb' = rb /\ dv' = dv /\ OutSeq' = OutSeq
    /\ hist'.termination = 1

\* the admit step ends
Admitted == pc \in {"admit", "force"} /\ pc' \notin {"admit", "force"}

\* the admit step blocks in mustPutToBuffer
Stalls ==
    /\ pc = "admit" /\ pc' = "force"
    /\ ~(IsEmpty(rb) /\ OutReady) /\ IsFull(rb)
    /\ rb' = rb /\ dv' = dv /\ OutSeq' = OutSeq

\* C29 (as stated): a value from ch.in goes to out directly only if the buffer is empty and
\* the non-blocking send succeeds, the buffer unchanged; in every other case it is
\* appended to the ring buffer behind all queued values
C29_FastOrAppended ==
    [][/\ Admitted => FastPath \/ Appended \/ ForcedIn
       /\ (pc = "admit" /\ pc' = "force") => Stalls
       /\ (pc \in {"admit", "force"} /\ pc' = pc) => UNCHANGED <<rb, dv, OutSeq>>]_vars

\* C29 (amended): as above, except that a value for which Put failed is handed to
\* termination, not queued, when the close signal arrives while the dispatcher waits to
\* send the head; no admit step sends the value ahead of a queued one
C29_FastOrAppendedUnlessClosed ==
    [][/\ Admitted => FastPath \/ Appended \/ ForcedIn \/ HandedToTermination
       /\ (pc = "admit" /\ pc' = "force") => Stalls
       /\ (pc \in {"admit", "force"} /\ pc' = pc) => UNCHANGED <<rb, dv, OutSeq>>]_vars

\* 1 went to out, 2 and 3 are queued in arrival order in a full buffer
C29_Witness ==
    /\ hist.termination = 0 /\ pc = "drain" /\ IsFull(rb)
    /\ OutSeq = <<1>> /\ Contents(rb) = <<2, 3>> /\ sent = <<1, 2, 3>>

\* ch.in was closed, and not by processTermination
ExternallyClosed == inClosed /\ hist.closeIn = 0

\* C21: once ch.in was closed by a client, a receive of the dispatcher that finds ch.in
\* closed and drained panics, in the outer select and in the draining loop; the zero value
\* is never processed or sent on out, only values that a producer sent are; after the panic
\* nothing is dispatched and out is not closed (a dispatcher that observes the close
\* signal first panics in close(ch.in) instead)
C21_ExternalCloseFailsLoudly ==
    /\ [](/\ Nil \notin Range(OutSeq)
          /\ hist.termination = 0 => Nil \notin Range(Contents(rb))
          /\ pc \in {"admit", "force"} => dv # Nil
          /\ pc = "panicked" =>
                /\ ExternallyClosed /\ ~outClosed
                /\ hist.termination = 0 => inq = <<>>)
    /\ [][/\ (pc' = "admit" /\ pc # "admit") =>
                /\ pc \in {"wait", "drain"} /\ InReady
                /\ dv' = (IF inq # <<>> THEN Head(inq) ELSE pval)
          /\ (pc \in {"wait", "drain"} /\ inClosed /\ inq = <<>>) =>
                pc' \in {"wait", "drain", "term", "panicked"}
          /\ pc = "panicked" =>
                /\ pc' = pc /\ rb' = rb /\ OutSeq' = OutSeq /\ inq' = inq
                /\ outClosed' = outClosed]_vars

\* the dispatcher panicked in the draining loop, with a value still queued and one delivered
C21_Witness ==
    /\ pc = "panicked" /\ ExternallyClosed /\ hist.termination = 0
    /\ ~IsEmpty(rb) /\ Len(OutSeq) >= 1 /\ ~closed

====
